---- MODULE Spec2Model ----
(***************************************************************************)
(* Model of the vmt VM lifecycle orchestrator (src/vmt/vm.py) together     *)
(* with the collaborators it calls: the manifest loader, the libvirt       *)
(* hypervisor connection, the image cache and the per-VM working           *)
(* directory.  Strings that the code formats or parses are sequences of    *)
(* one-character strings, so that formatting and parsing are computed.     *)
(***************************************************************************)
EXTENDS Integers, Sequences, FiniteSets, TLC

VARIABLES
    domains,     \* hypervisor: set of domain objects [uuid, name, state, persistent]
    uuidCtr,     \* hypervisor: number of domains defined so far (source of fresh uuids)
    imagesDir,   \* filesystem: does ~/.cache/vmt/images exist
    cache,       \* filesystem: image file name -> "absent" | "partial" | "complete"
    vmDirs,      \* filesystem: vm name -> [exists, disk, seed] of ~/.cache/vmt/vms/{name}
    leases,      \* hypervisor: domain uuid -> the DHCP leases of its interfaces, in order
    opCount,     \* history: number of operations called so far
    guestEvents, \* history: number of changes made by the guest, an operator or DHCP
    ops          \* per orchestrator process: the operation in progress and its locals

vars == <<domains, uuidCtr, imagesDir, cache, vmDirs, leases, opCount, guestEvents, ops>>

world == <<domains, uuidCtr, imagesDir, cache, vmDirs, leases>>

-----------------------------------------------------------------------------
(* Bounds *)

\* number of domain definitions the hypervisor accepts in one behaviour
MaxDefines == 2

\* number of operations called in one behaviour
MaxOps == 2

\* number of domain state changes made by the guest or an operator
MaxGuestEvents == 1

-----------------------------------------------------------------------------
(* Names and references *)

NameX == <<"x">>
NameLtEnt == <<"&", "l", "t", ";">>
NameLt == <<"<">>

\* VM names that occur in manifests and on the command line
Names == {NameX, NameLtEnt, NameLt}

\* image references, as their "/"-separated segments
RefBase == <<"http:", "", "h", "base.qcow2">>
\* a reference that ends in "/"
RefDir == <<"http:", "", "h", "">>
ImageRefs == {RefBase, RefDir}

\* image_url.rsplit("/", 1)[-1] if "/" in image_url else image_url
ImageFilename(ref) == ref[Len(ref)]

\* names a file in the cache directory can have
ImageFiles == {ImageFilename(r) : r \in ImageRefs} \ {""}

\* f"vmt-{vm_name}"
DomainName(name) == <<"v", "m", "t", "-">> \o name

Malformed == <<"malformed">>

\* Character data of an XML element as the hypervisor's parser reads it:
\* a predefined entity reference is decoded, a bare "&" or "<" is not
\* well-formed.
RECURSIVE XmlText(_)
XmlText(s) ==
    IF s = <<>> THEN <<>>
    ELSE IF Head(s) = "<" THEN Malformed
    ELSE IF Head(s) = "&" THEN
        IF Len(s) >= 4 /\ SubSeq(s, 2, 4) = <<"l", "t", ";">>
        THEN LET r == XmlText(SubSeq(s, 5, Len(s)))
             IN IF r = Malformed THEN Malformed ELSE <<"<">> \o r
        ELSE Malformed
    ELSE LET r == XmlText(Tail(s))
         IN IF r = Malformed THEN Malformed ELSE <<Head(s)>> \o r

\* mutant of generate_domain_xml: the memory element carries the MiB value
generate_domain_xml_MiB(name, memory_mb, cpus, disk_path, cloud_init_iso) ==
    [name |-> <<"v", "m", "t", "-">> \o name,
     memory_kib |-> memory_mb,
     vcpu |-> cpus,
     disk |-> disk_path,
     cdrom |-> cloud_init_iso]

\* generate_domain_xml: the fields of the document that depend on the inputs
generate_domain_xml(name, memory_mb, cpus, disk_path, cloud_init_iso) ==
    [name |-> <<"v", "m", "t", "-">> \o name,
     memory_kib |-> memory_mb * 1024,
     vcpu |-> cpus,
     disk |-> disk_path,
     cdrom |-> cloud_init_iso]

-----------------------------------------------------------------------------
(* Manifests *)

\* the "port" key is absent from [ssh]
NoPort == 0

\* what find_manifest + load_vm_manifest + the field reads of up yield:
\* status "notfound" (FileNotFoundError), "invalid" (ValueError: a section
\* of _VM_REQUIRED_SECTIONS or a field of _VM_REQUIRED_FIELDS is missing),
\* "nouser" (KeyError on ssh.user), "noprov" (loads, but [provision] lacks
\* packages or compositor_cmd, which generate_user_data reads) or "ok"
ManifestOutcomes ==
    [status : {"notfound", "invalid", "nouser"}, name : {NameX},
     image : {RefBase}, user : {"root"}, port : {NoPort}]
    \cup
    [status : {"noprov"}, name : Names, image : ImageRefs,
     user : {"root"}, port : {NoPort}]
    \cup
    [status : {"ok"}, name : Names, image : ImageRefs,
     user : {"root"}, port : {NoPort, 2222}]

\* _VM_DEFAULTS
DefaultMemory == 2048
DefaultCpus == 2
DefaultDisk == 10

-----------------------------------------------------------------------------
(* Hypervisor (libvirt connection) *)

NoDom == 0

Active(d) == d.state \in {"running", "paused"}

DomByName(doms, n) == {d \in doms : d.name = n}
DomByUuid(doms, u) == {d \in doms : d.uuid = u}

\* conn.lookupByName: the handle of the domain of that name, NoDom when the
\* lookup raises
lookupByName(doms, n, fail) ==
    IF fail \/ DomByName(doms, n) = {} THEN NoDom
    ELSE (CHOOSE d \in DomByName(doms, n) : TRUE).uuid

\* dom.state(): "error" when the call raises
domState(doms, u, fail) ==
    IF fail \/ DomByUuid(doms, u) = {} THEN "error"
    ELSE (CHOOSE d \in DomByUuid(doms, u) : TRUE).state

\* dom.destroy(): does the call succeed, and the domains afterwards
destroyOk(doms, u, fail) ==
    /\ ~fail
    /\ \E d \in DomByUuid(doms, u) : Active(d)

destroyEffect(doms, u) ==
    {d \in doms : d.uuid # u}
    \cup {[d EXCEPT !.state = "shutoff"] : d \in {e \in DomByUuid(doms, u) : e.persistent}}

\* dom.undefine()
undefineOk(doms, u, fail) ==
    /\ ~fail
    /\ \E d \in DomByUuid(doms, u) : d.persistent

undefineEffect(doms, u) ==
    {d \in doms : d.uuid # u}
    \cup {[d EXCEPT !.persistent = FALSE] : d \in {e \in DomByUuid(doms, u) : Active(e)}}

\* conn.defineXML(xml): refused when the document is not well-formed or a
\* domain of the parsed name already exists
defineOk(doms, xml, fail) ==
    /\ ~fail
    /\ XmlText(xml.name) # Malformed
    /\ DomByName(doms, XmlText(xml.name)) = {}

defineEffect(doms, xml, u) ==
    doms \cup {[uuid |-> u, name |-> XmlText(xml.name),
                state |-> "shutoff", persistent |-> TRUE]}

\* one entry of dom.interfaceAddresses(SRC_LEASE): an address and its type
Lease(family, addr) == [family |-> family, addr |-> addr]

\* the lease source answers for the domains that exist
LiveLeases(ls, doms) ==
    [u \in DOMAIN ls |-> IF DomByUuid(doms, u) = {} THEN <<>> ELSE ls[u]]

\* dom.create()
createOk(doms, u, fail) ==
    /\ ~fail
    /\ \E d \in DomByUuid(doms, u) : ~Active(d)

createEffect(doms, u) ==
    {d \in doms : d.uuid # u}
    \cup {[d EXCEPT !.state = "running"] : d \in DomByUuid(doms, u)}

-----------------------------------------------------------------------------
(* Filesystem *)

NoDir == [exists |-> FALSE, disk |-> "none", seed |-> FALSE]

\* _vm_dir: d.mkdir(parents=True, exist_ok=True)
vm_dir(dirs, n) == [dirs EXCEPT ![n].exists = TRUE]

\* mutant of rmtree: the directory is left in place
rmtree_Keep(dirs, n) == dirs

\* shutil.rmtree(workdir)
rmtree(dirs, n) == [dirs EXCEPT ![n] = NoDir]

\* (_IMAGES_DIR / image_filename).exists(): joining the empty name gives
\* the cache directory itself
base_image_exists(dirExists, files, file) ==
    IF file = "" THEN dirExists ELSE files[file] # "absent"

-----------------------------------------------------------------------------
(* Program constants *)

IpTimeout == 60
IpInterval == 2
SshTimeout == 300
SshInterval == 2
DefaultSshPort == 22

IpAddrs == {"192.168.122.10"}
SpicePorts == {5900}
NoSpicePort == 0

-----------------------------------------------------------------------------
(* Operations in progress *)

NoVm == [status |-> "none", name |-> NameX, image |-> RefBase,
         user |-> "root", port |-> NoPort]

NoRet == [name |-> <<>>, domain |-> <<>>, ip |-> "none", ssh_user |-> "none",
          ssh_port |-> 0, spice_port |-> NoSpicePort]

\* what an operation remembers of the operation finished just before it: set
\* only when that was an up that returned
NoPrev == [up |-> FALSE, arg |-> <<>>, vm |-> NoVm, dom |-> NoDom]

IdleOp ==
    [kind |-> "none",        \* which public method runs
     arg |-> <<>>,           \* its name argument
     pc |-> "idle",          \* the step it is at; "returned" / "raised" when over
     exc |-> "none",         \* the exception it raised
     at |-> "none",          \* the step that raised it
     vm |-> NoVm,            \* manifest fields read in step 1
     domain_name |-> <<>>,   \* local domain_name
     dom |-> NoDom,          \* local dom: handle of the domain looked up or defined
     found |-> NoDom,        \* the handle _cleanup_existing_domain looked up
     seen |-> "none",        \* the state _cleanup_existing_domain read from it
     swallowed |-> FALSE,    \* some failure of this operation was caught and not raised
     fresh |-> FALSE,        \* destroy: no domain and no workspace of the name at the call
     calls |-> <<>>,         \* external calls made so far, in order
     hvErr |-> FALSE,        \* some hypervisor call of this operation raised
     t |-> 0,                \* seconds elapsed in the last wait loop
     attempts |-> 0,         \* polls made by the last wait loop
     ip |-> "none",
     ssh |-> "none",         \* SSHClient of step 8: "none" | "open" | "closed"
     ret |-> NoRet,          \* the returned descriptor
     result |-> "pending",   \* get_info: "none" for a None result, "descriptor" for a dict
     leased |-> <<>>,        \* get_info: what the lease query answered
     leaseErr |-> FALSE,     \* get_info: the lease query raised
     before |-> "none",      \* get_info: address in the descriptor this process got before
     prev |-> NoPrev]        \* the operation this process finished before

Finished(o) == o.pc \in {"idle", "returned", "raised"}

Summary(o) ==
    IF o.kind = "up" /\ o.pc = "returned"
    THEN [up |-> TRUE, arg |-> o.arg, vm |-> o.vm, dom |-> o.dom]
    ELSE NoPrev

Log(o, c) == [o EXCEPT !.calls = Append(@, c)]

Raise(o, e) == [o EXCEPT !.pc = "raised", !.exc = e, !.at = o.pc]

Goto(p, o) == ops' = [ops EXCEPT ![p] = o]

-----------------------------------------------------------------------------
(* VMManager.up *)

\* a caller invokes up(name)
CallUp(p, name) ==
    /\ Finished(ops[p])
    /\ opCount < MaxOps
    /\ opCount' = opCount + 1
    /\ Goto(p, [IdleOp EXCEPT !.kind = "up", !.arg = name, !.pc = "manifest",
                              !.prev = Summary(ops[p])])
    /\ UNCHANGED <<world, guestEvents>>

\* mutant of UpManifest: the image cache directory is created before the
\* manifest is loaded
UpManifest_MkdirFirst(p) ==
    /\ ops[p].kind = "up" /\ ops[p].pc = "manifest"
    /\ imagesDir' = TRUE
    /\ \E m \in ManifestOutcomes :
         LET o == Log(ops[p], "find_manifest") IN
         Goto(p, CASE m.status = "notfound" -> Raise(o, "FileNotFoundError")
                   [] m.status = "invalid" -> Raise(o, "ValueError")
                   [] m.status = "nouser" -> Raise(o, "KeyError")
                   [] OTHER -> [o EXCEPT !.vm = m, !.pc = "image"])
    /\ UNCHANGED <<domains, uuidCtr, cache, vmDirs, opCount, guestEvents, leases>>

\* 1. Load manifest
UpManifest(p) ==
    /\ ops[p].kind = "up" /\ ops[p].pc = "manifest"
    /\ \E m \in ManifestOutcomes :
         LET o == Log(ops[p], "find_manifest") IN
         Goto(p, CASE m.status = "notfound" -> Raise(o, "FileNotFoundError")
                   [] m.status = "invalid" -> Raise(o, "ValueError")
                   [] m.status = "nouser" -> Raise(o, "KeyError")
                   [] OTHER -> [o EXCEPT !.vm = m, !.pc = "image"])
    /\ UNCHANGED <<world, opCount, guestEvents>>

\* 2. Download cloud image
UpImage(p) ==
    /\ ops[p].kind = "up" /\ ops[p].pc = "image"
    /\ imagesDir' = TRUE
    /\ LET file == ImageFilename(ops[p].vm.image)
           o == Log(ops[p], "images_mkdir")
       IN IF ~base_image_exists(TRUE, cache, file)
          THEN \E out \in {"ok", "fail_clean", "fail_partial"} :
                 /\ cache' = [cache EXCEPT ![file] =
                        CASE out = "ok" -> "complete"
                          [] out = "fail_partial" -> "partial"
                          [] OTHER -> "absent"]
                 /\ Goto(p, IF out = "ok"
                            THEN [Log(o, "urlretrieve") EXCEPT !.pc = "overlay"]
                            ELSE Raise(Log(o, "urlretrieve"), "URLError"))
          ELSE /\ cache' = cache
               /\ Goto(p, [o EXCEPT !.pc = "overlay"])
    /\ UNCHANGED <<domains, uuidCtr, vmDirs, opCount, guestEvents, leases>>

\* qemu-img create -b base: it succeeds, or fails with or without leaving a
\* file behind; it cannot succeed when base is a directory
OverlayOutcomes(file) ==
    IF file = "" THEN {"fail_clean"} ELSE {"ok", "fail_clean", "fail_partial"}

\* mutant of UpOverlay: a failure of qemu-img is ignored
UpOverlay_Continue(p) ==
    /\ ops[p].kind = "up" /\ ops[p].pc = "overlay"
    /\ LET n == ops[p].vm.name
           o == Log(Log(ops[p], "vm_dir"), "create_overlay")
       IN \E out \in OverlayOutcomes(ImageFilename(ops[p].vm.image)) :
            /\ vmDirs' = [vm_dir(vmDirs, n) EXCEPT ![n].disk =
                   CASE out = "ok" -> "ok"
                     [] out = "fail_partial" -> "partial"
                     [] OTHER -> @]
            /\ Goto(p, [o EXCEPT !.pc = "seed"])
    /\ UNCHANGED <<domains, uuidCtr, imagesDir, cache, opCount, guestEvents, leases>>

\* 3. Create overlay disk
UpOverlay(p) ==
    /\ ops[p].kind = "up" /\ ops[p].pc = "overlay"
    /\ LET n == ops[p].vm.name
           o == Log(Log(ops[p], "vm_dir"), "create_overlay")
       IN \E out \in OverlayOutcomes(ImageFilename(ops[p].vm.image)) :
            /\ vmDirs' = [vm_dir(vmDirs, n) EXCEPT ![n].disk =
                   CASE out = "ok" -> "ok"
                     [] out = "fail_partial" -> "partial"
                     [] OTHER -> @]
            /\ Goto(p, IF out = "ok" THEN [o EXCEPT !.pc = "seed"]
                       ELSE Raise(o, "CalledProcessError"))
    /\ UNCHANGED <<domains, uuidCtr, imagesDir, cache, opCount, guestEvents, leases>>

\* mutant of UpSeed: a failure of the step removes the workspace again
UpSeed_Rollback(p) ==
    /\ ops[p].kind = "up" /\ ops[p].pc = "seed"
    /\ LET n == ops[p].vm.name IN
       \E out \in {"ok", "nokey", "fail"} :
         /\ vmDirs' = IF out = "ok" /\ ops[p].vm.status = "ok"
                      THEN [vmDirs EXCEPT ![n].seed = TRUE] ELSE rmtree(vmDirs, n)
         /\ Goto(p, CASE out = "nokey" ->
                           Raise(Log(ops[p], "get_ssh_pubkey"), "FileNotFoundError")
                      [] ops[p].vm.status = "noprov" ->
                           Raise(Log(Log(ops[p], "get_ssh_pubkey"), "generate_user_data"),
                                 "KeyError")
                      [] out = "ok" ->
                           [Log(Log(Log(ops[p], "get_ssh_pubkey"), "generate_user_data"),
                                "cloud_init_iso") EXCEPT !.pc = "grant_images"]
                      [] OTHER ->
                           Raise(Log(Log(Log(ops[p], "get_ssh_pubkey"),
                                         "generate_user_data"), "cloud_init_iso"),
                                 "CalledProcessError"))
    /\ UNCHANGED <<domains, uuidCtr, imagesDir, cache, opCount, guestEvents, leases>>

\* 4. Generate cloud-init ISO
UpSeed(p) ==
    /\ ops[p].kind = "up" /\ ops[p].pc = "seed"
    /\ LET n == ops[p].vm.name IN
       \E out \in {"ok", "nokey", "fail"} :
         /\ vmDirs' = IF out = "ok" /\ ops[p].vm.status = "ok"
                      THEN [vmDirs EXCEPT ![n].seed = TRUE] ELSE vmDirs
         /\ Goto(p, CASE out = "nokey" ->
                           Raise(Log(ops[p], "get_ssh_pubkey"), "FileNotFoundError")
                      [] ops[p].vm.status = "noprov" ->
                           Raise(Log(Log(ops[p], "get_ssh_pubkey"), "generate_user_data"),
                                 "KeyError")
                      [] out = "ok" ->
                           [Log(Log(Log(ops[p], "get_ssh_pubkey"), "generate_user_data"),
                                "cloud_init_iso") EXCEPT !.pc = "grant_images"]
                      [] OTHER ->
                           Raise(Log(Log(Log(ops[p], "get_ssh_pubkey"),
                                         "generate_user_data"), "cloud_init_iso"),
                                 "CalledProcessError"))
    /\ UNCHANGED <<domains, uuidCtr, imagesDir, cache, opCount, guestEvents, leases>>

\* 5. Grant QEMU user access: a grant succeeds ("ok"), fails with
\* CalledProcessError, which is logged ("warn"), or cannot be run ("oserror")
GrantOutcomes == {"ok", "warn", "oserror"}

UpGrantImages(p) ==
    /\ ops[p].kind = "up" /\ ops[p].pc = "grant_images"
    /\ \E out \in GrantOutcomes :
         LET o == Log(ops[p], "grant_images") IN
         Goto(p, IF out = "oserror" THEN Raise(o, "OSError")
                 ELSE [o EXCEPT !.pc = "grant_workdir",
                                !.swallowed = @ \/ (out = "warn")])
    /\ UNCHANGED <<world, opCount, guestEvents>>

UpGrantWorkdir(p) ==
    /\ ops[p].kind = "up" /\ ops[p].pc = "grant_workdir"
    /\ \E out \in GrantOutcomes :
         LET o == Log(ops[p], "grant_workdir") IN
         Goto(p, IF out = "oserror" THEN Raise(o, "OSError")
                 ELSE [o EXCEPT !.pc = "cl_lookup",
                                !.swallowed = @ \/ (out = "warn"),
                                !.domain_name = DomainName(ops[p].vm.name)])
    /\ UNCHANGED <<world, opCount, guestEvents>>

-----------------------------------------------------------------------------
(* VMManager._cleanup_existing_domain, called by up and by destroy *)

AfterCleanup(o) == IF o.kind = "up" THEN "define" ELSE "workdir"

\* dom = self._conn.lookupByName(domain_name); return when it raises
CleanupLookup(p) ==
    /\ ops[p].pc = "cl_lookup"
    /\ \E fail \in BOOLEAN :
         LET h == lookupByName(domains, ops[p].domain_name, fail)
             o == [Log(ops[p], "lookup") EXCEPT !.hvErr = @ \/ fail,
                                                !.swallowed = @ \/ fail, !.found = h]
         IN Goto(p, IF h = NoDom THEN [o EXCEPT !.pc = AfterCleanup(o)]
                    ELSE [o EXCEPT !.pc = "cl_stop"])
    /\ UNCHANGED <<world, opCount, guestEvents>>

\* mutant of CleanupStop: the state is read but a Running domain is not
\* stopped
CleanupStop_NoDestroy(p) ==
    /\ ops[p].pc = "cl_stop"
    /\ \E f1 \in BOOLEAN :
         LET u == ops[p].found
             st == domState(domains, u, f1)
             o == [Log(ops[p], "state") EXCEPT !.seen = st]
         IN /\ domains' = domains
            /\ Goto(p, [o EXCEPT !.hvErr = @ \/ (st = "error"),
                                 !.swallowed = @ \/ (st = "error"),
                                 !.pc = "cl_undefine"])
    /\ UNCHANGED <<uuidCtr, imagesDir, cache, vmDirs, opCount, guestEvents>>
    /\ leases' = LiveLeases(leases, domains')

\* mutant of CleanupStop: a failure of the state query or of the stop ends
\* the clean-up
CleanupStop_ReturnOnError(p) ==
    /\ ops[p].pc = "cl_stop"
    /\ \E f1 \in BOOLEAN, f2 \in BOOLEAN :
         LET u == ops[p].found
             st == domState(domains, u, f1)
             o == [Log(ops[p], "state") EXCEPT !.seen = st]
         IN IF st = "running"
            THEN /\ domains' = IF destroyOk(domains, u, f2)
                               THEN destroyEffect(domains, u) ELSE domains
                 /\ Goto(p, [Log(o, "destroy") EXCEPT
                                !.hvErr = @ \/ ~destroyOk(domains, u, f2),
                                !.swallowed = @ \/ ~destroyOk(domains, u, f2),
                                !.pc = IF destroyOk(domains, u, f2)
                                       THEN "cl_undefine" ELSE AfterCleanup(o)])
            ELSE /\ domains' = domains
                 /\ Goto(p, [o EXCEPT !.hvErr = @ \/ (st = "error"),
                                      !.swallowed = @ \/ (st = "error"),
                                      !.pc = IF st = "error"
                                             THEN AfterCleanup(o) ELSE "cl_undefine"])
    /\ UNCHANGED <<uuidCtr, imagesDir, cache, vmDirs, opCount, guestEvents>>
    /\ leases' = LiveLeases(leases, domains')

\* state, _ = dom.state(); if state == RUNNING: dom.destroy(); errors pass
CleanupStop(p) ==
    /\ ops[p].pc = "cl_stop"
    /\ \E f1 \in BOOLEAN, f2 \in BOOLEAN :
         LET u == ops[p].found
             st == domState(domains, u, f1)
             o == [Log(ops[p], "state") EXCEPT !.seen = st]
         IN IF st = "running"
            THEN /\ domains' = IF destroyOk(domains, u, f2)
                               THEN destroyEffect(domains, u) ELSE domains
                 /\ Goto(p, [Log(o, "destroy") EXCEPT
                                !.hvErr = @ \/ ~destroyOk(domains, u, f2),
                                !.swallowed = @ \/ ~destroyOk(domains, u, f2),
                                !.pc = "cl_undefine"])
            ELSE /\ domains' = domains
                 /\ Goto(p, [o EXCEPT !.hvErr = @ \/ (st = "error"),
                                      !.swallowed = @ \/ (st = "error"),
                                      !.pc = "cl_undefine"])
    /\ UNCHANGED <<uuidCtr, imagesDir, cache, vmDirs, opCount, guestEvents>>
    /\ leases' = LiveLeases(leases, domains')

\* mutant of CleanupUndefine: the clean-up ends without the undefine call
CleanupUndefine_Skip(p) ==
    /\ ops[p].pc = "cl_undefine"
    /\ Goto(p, [ops[p] EXCEPT !.pc = AfterCleanup(ops[p])])
    /\ UNCHANGED <<world, opCount, guestEvents>>

\* dom.undefine(); errors pass
CleanupUndefine(p) ==
    /\ ops[p].pc = "cl_undefine"
    /\ \E fail \in BOOLEAN :
         LET u == ops[p].found
             ok == undefineOk(domains, u, fail)
             o == [Log(ops[p], "undefine") EXCEPT !.hvErr = @ \/ ~ok,
                                                  !.swallowed = @ \/ ~ok]
         IN /\ domains' = IF ok THEN undefineEffect(domains, u) ELSE domains
            /\ Goto(p, [o EXCEPT !.pc = AfterCleanup(o)])
    /\ UNCHANGED <<uuidCtr, imagesDir, cache, vmDirs, opCount, guestEvents>>
    /\ leases' = LiveLeases(leases, domains')

-----------------------------------------------------------------------------
(* VMManager.up, continued *)

DiskPath(name) == <<name, "disk.qcow2">>
SeedPath(name) == <<name, "seed.iso">>

\* 6. dom = self._conn.defineXML(generate_domain_xml(...))
UpDefine(p) ==
    /\ ops[p].kind = "up" /\ ops[p].pc = "define"
    /\ \E fail \in BOOLEAN :
         LET n == ops[p].vm.name
             xml == generate_domain_xml(n, DefaultMemory, DefaultCpus,
                                        DiskPath(n), SeedPath(n))
             o == Log(ops[p], "defineXML")
         IN IF defineOk(domains, xml, fail)
            THEN /\ uuidCtr < MaxDefines
                 /\ uuidCtr' = uuidCtr + 1
                 /\ domains' = defineEffect(domains, xml, uuidCtr + 1)
                 /\ Goto(p, [o EXCEPT !.dom = uuidCtr + 1, !.pc = "create"])
            ELSE /\ UNCHANGED <<uuidCtr, domains>>
                 /\ Goto(p, Raise([o EXCEPT !.hvErr = TRUE], "libvirtError"))
    /\ UNCHANGED <<imagesDir, cache, vmDirs, opCount, guestEvents, leases>>

\* mutant of UpCreate: the defined domain is not started
UpCreate_NoStart(p) ==
    /\ ops[p].kind = "up" /\ ops[p].pc = "create"
    /\ Goto(p, [ops[p] EXCEPT !.pc = "wait_ip"])
    /\ UNCHANGED <<world, opCount, guestEvents>>

\* dom.create()
UpCreate(p) ==
    /\ ops[p].kind = "up" /\ ops[p].pc = "create"
    /\ \E fail \in BOOLEAN :
         LET u == ops[p].dom
             o == Log(ops[p], "create")
         IN IF createOk(domains, u, fail)
            THEN /\ domains' = createEffect(domains, u)
                 /\ Goto(p, [o EXCEPT !.pc = "wait_ip"])
            ELSE /\ domains' = domains
                 /\ Goto(p, Raise([o EXCEPT !.hvErr = TRUE], "libvirtError"))
    /\ UNCHANGED <<uuidCtr, imagesDir, cache, vmDirs, opCount, guestEvents, leases>>

\* The sleep-and-retry loop of _wait_for_ip and of wait_until_ready.  The
\* loop tests "now < deadline" before each attempt and sleeps interval after
\* each failed one, so attempt j starts at time (j - 1) * interval.
AttemptsBeforeDeadline(timeout, interval) ==
    {j \in 1..(timeout \div interval + 1) : (j - 1) * interval < timeout}

\* the attempt number firstOk is the first that succeeds: whether the loop
\* returned, the time it took and the attempts it made
PollLoop(timeout, interval, firstOk) ==
    IF firstOk \in AttemptsBeforeDeadline(timeout, interval)
    THEN [ok |-> TRUE, t |-> (firstOk - 1) * interval, attempts |-> firstOk]
    ELSE [ok |-> FALSE,
          t |-> Cardinality(AttemptsBeforeDeadline(timeout, interval)) * interval,
          attempts |-> Cardinality(AttemptsBeforeDeadline(timeout, interval))]

\* the attempt that first succeeds, as the lease source / the guest's sshd
\* decide it: the first, the second, the last one before the deadline, or none
Never == 0
FirstOkChoices(timeout, interval) == {1, 2, timeout \div interval, Never}

\* mutant of UpWaitIp: when the deadline passes the loop returns no address
\* instead of raising
UpWaitIp_IgnoreTimeout(p) ==
    /\ ops[p].kind = "up" /\ ops[p].pc = "wait_ip"
    /\ \E k \in FirstOkChoices(IpTimeout, IpInterval), r \in IpAddrs :
         LET w == PollLoop(IpTimeout, IpInterval, k)
             o == [Log(ops[p], "wait_for_ip") EXCEPT !.t = w.t, !.attempts = w.attempts]
         IN /\ leases' = IF w.ok THEN [leases EXCEPT ![ops[p].dom] = <<Lease("ipv4", r)>>]
                           ELSE leases
            /\ Goto(p, IF w.ok THEN [o EXCEPT !.ip = r, !.pc = "wait_ssh"]
                       ELSE [o EXCEPT !.pc = "wait_ssh"])
    /\ UNCHANGED <<domains, uuidCtr, imagesDir, cache, vmDirs, opCount, guestEvents>>

\* 7. ip = self._wait_for_ip(dom): the DHCP server of the default network
\* leases the guest an address while up polls, or never does
UpWaitIp(p) ==
    /\ ops[p].kind = "up" /\ ops[p].pc = "wait_ip"
    /\ \E k \in FirstOkChoices(IpTimeout, IpInterval), r \in IpAddrs :
         LET w == PollLoop(IpTimeout, IpInterval, k)
             o == [Log(ops[p], "wait_for_ip") EXCEPT !.t = w.t, !.attempts = w.attempts]
         IN /\ leases' = IF w.ok THEN [leases EXCEPT ![ops[p].dom] = <<Lease("ipv4", r)>>]
                           ELSE leases
            /\ Goto(p, IF w.ok THEN [o EXCEPT !.ip = r, !.pc = "wait_ssh"]
                       ELSE Raise(o, "TimeoutError"))
    /\ UNCHANGED <<domains, uuidCtr, imagesDir, cache, vmDirs, opCount, guestEvents>>

\* mutant of UpWaitSsh: a shell wait that times out stops the domain
UpWaitSsh_StopOnTimeout(p) ==
    /\ ops[p].kind = "up" /\ ops[p].pc = "wait_ssh"
    /\ \E k \in FirstOkChoices(SshTimeout, SshInterval) :
         LET w == PollLoop(SshTimeout, SshInterval, k)
             o == [Log(ops[p], "wait_until_ready")
                      EXCEPT !.t = w.t, !.attempts = w.attempts]
         IN /\ domains' = IF w.ok THEN domains ELSE destroyEffect(domains, ops[p].dom)
            /\ Goto(p, IF w.ok
                       THEN [Log(o, "ssh_close") EXCEPT !.ssh = "closed", !.pc = "spice"]
                       ELSE Raise(o, "TimeoutError"))
    /\ UNCHANGED <<uuidCtr, imagesDir, cache, vmDirs, opCount, guestEvents, leases>>

\* 8. ssh.wait_until_ready(); ssh.close()
UpWaitSsh(p) ==
    /\ ops[p].kind = "up" /\ ops[p].pc = "wait_ssh"
    /\ \E k \in FirstOkChoices(SshTimeout, SshInterval) :
         LET w == PollLoop(SshTimeout, SshInterval, k)
             o == [Log(ops[p], "wait_until_ready")
                      EXCEPT !.t = w.t, !.attempts = w.attempts]
         IN Goto(p, IF w.ok
                    THEN [Log(o, "ssh_close") EXCEPT !.ssh = "closed", !.pc = "spice"]
                    ELSE Raise(o, "TimeoutError"))
    /\ UNCHANGED <<world, opCount, guestEvents>>

\* mutant of UpReturn: the descriptor carries the port as the manifest has it
UpReturn_NoDefaultPort(p) ==
    /\ ops[p].kind = "up" /\ ops[p].pc = "spice"
    /\ \E r \in SpicePorts \cup {NoSpicePort, -1} :
         LET o == Log(ops[p], "spice_port") IN
         Goto(p, IF r = -1 THEN Raise([o EXCEPT !.hvErr = TRUE], "libvirtError")
                 ELSE [o EXCEPT !.pc = "returned",
                         !.ret = [name |-> o.vm.name,
                                  domain |-> o.domain_name,
                                  ip |-> o.ip,
                                  ssh_user |-> o.vm.user,
                                  ssh_port |-> o.vm.port,
                                  spice_port |-> r]])
    /\ UNCHANGED <<world, opCount, guestEvents>>

\* 9. _get_spice_port and the returned info dict
UpReturn(p) ==
    /\ ops[p].kind = "up" /\ ops[p].pc = "spice"
    /\ \E r \in SpicePorts \cup {NoSpicePort, -1} :
         LET o == Log(ops[p], "spice_port") IN
         Goto(p, IF r = -1 THEN Raise([o EXCEPT !.hvErr = TRUE], "libvirtError")
                 ELSE [o EXCEPT !.pc = "returned",
                         !.ret = [name |-> o.vm.name,
                                  domain |-> o.domain_name,
                                  ip |-> o.ip,
                                  ssh_user |-> o.vm.user,
                                  ssh_port |-> IF o.vm.port = NoPort
                                               THEN DefaultSshPort ELSE o.vm.port,
                                  spice_port |-> r]])
    /\ UNCHANGED <<world, opCount, guestEvents>>

-----------------------------------------------------------------------------
(* VMManager.destroy *)

\* a caller invokes destroy(name)
CallDestroy(p, name) ==
    /\ Finished(ops[p])
    /\ opCount < MaxOps
    /\ opCount' = opCount + 1
    /\ Goto(p, [IdleOp EXCEPT !.kind = "destroy", !.arg = name, !.pc = "cl_lookup",
                              !.domain_name = DomainName(name),
                              !.fresh = /\ DomByName(domains, DomainName(name)) = {}
                                        /\ ~vmDirs[name].exists,
                              !.prev = Summary(ops[p])])
    /\ UNCHANGED <<world, guestEvents>>

\* workdir = _vm_dir(name); if workdir.exists(): shutil.rmtree(workdir)
DestroyWorkdir(p) ==
    /\ ops[p].kind = "destroy" /\ ops[p].pc = "workdir"
    /\ LET d == vm_dir(vmDirs, ops[p].arg) IN
       IF d[ops[p].arg].exists
       THEN /\ vmDirs' = rmtree(d, ops[p].arg)
            /\ Goto(p, [Log(Log(ops[p], "vm_dir"), "rmtree") EXCEPT !.pc = "returned"])
       ELSE /\ vmDirs' = d
            /\ Goto(p, [Log(ops[p], "vm_dir") EXCEPT !.pc = "returned"])
    /\ UNCHANGED <<domains, uuidCtr, imagesDir, cache, opCount, guestEvents, leases>>

-----------------------------------------------------------------------------
(* VMManager.get_info *)

AddrA == "192.168.122.10"
AddrB == "192.168.122.11"
AddrV6 == "fe80::1"

\* what the lease source can hold for one domain
LeaseLists ==
    {<<>>,
     <<Lease("ipv4", AddrA)>>,
     <<Lease("ipv6", AddrV6)>>,
     <<Lease("ipv6", AddrV6), Lease("ipv4", AddrA)>>,
     <<Lease("ipv4", AddrB), Lease("ipv4", AddrA)>>}

Ipv4Of(ls) == {ls[i].addr : i \in {j \in 1..Len(ls) : ls[j].family = "ipv4"}}

\* mutant of FirstIpv4: the address type is not looked at
FirstIpv4_AnyFamily(ls) ==
    IF ls = <<>> THEN "none" ELSE ls[1].addr

\* the loop of _get_ip: the first address of type IPV4, None without one
FirstIpv4(ls) ==
    IF Ipv4Of(ls) = {} THEN "none"
    ELSE ls[CHOOSE i \in 1..Len(ls) :
                /\ ls[i].family = "ipv4"
                /\ \A j \in 1..(i - 1) : ls[j].family # "ipv4"].addr

\* ssh_user = "root"; ssh_port = 22
FallbackSshUser == "root"
FallbackSshPort == 22

\* what find_manifest + load_vm_manifest yield to get_info: no file
\* ("notfound"), a file without a required section or field ("invalid"), a
\* file whose [ssh] has no user ("nouser"), or a file with one ("ok")
InfoManifests ==
    [status : {"notfound", "invalid"}, name : {NameX}, image : {RefBase},
     user : {"root"}, port : {NoPort}]
    \cup
    [status : {"nouser"}, name : {NameX}, image : {RefBase},
     user : {"root"}, port : {NoPort, 2222}]
    \cup
    [status : {"ok"}, name : {NameX}, image : {RefBase},
     user : {"root", "dev"}, port : {NoPort, 2222}]

\* a caller invokes get_info(name)
CallGetInfo(p, name) ==
    /\ Finished(ops[p])
    /\ opCount < MaxOps
    /\ opCount' = opCount + 1
    /\ Goto(p, [IdleOp EXCEPT !.kind = "get_info", !.arg = name, !.pc = "gi_lookup",
                              !.domain_name = DomainName(name),
                              !.before = IF ops[p].kind = "get_info"
                                            /\ ops[p].result = "descriptor"
                                         THEN ops[p].ret.ip ELSE "none"])
    /\ UNCHANGED <<world, guestEvents>>

\* mutant of GiLookup: a failed lookup is not caught
GiLookup_Propagate(p) ==
    /\ ops[p].kind = "get_info" /\ ops[p].pc = "gi_lookup"
    /\ \E fail \in BOOLEAN :
         LET h == lookupByName(domains, ops[p].domain_name, fail)
             o == [Log(ops[p], "lookup") EXCEPT !.hvErr = @ \/ fail, !.found = h,
                                                !.dom = h]
         IN Goto(p, IF h = NoDom THEN Raise(o, "libvirtError")
                    ELSE [o EXCEPT !.pc = "gi_state"])
    /\ UNCHANGED <<world, opCount, guestEvents>>

\* dom = self._conn.lookupByName(domain_name); return None when it raises
GiLookup(p) ==
    /\ ops[p].kind = "get_info" /\ ops[p].pc = "gi_lookup"
    /\ \E fail \in BOOLEAN :
         LET h == lookupByName(domains, ops[p].domain_name, fail)
             o == [Log(ops[p], "lookup") EXCEPT !.hvErr = @ \/ fail, !.found = h,
                                                !.dom = h]
         IN Goto(p, IF h = NoDom THEN [o EXCEPT !.pc = "returned", !.result = "none"]
                    ELSE [o EXCEPT !.pc = "gi_state"])
    /\ UNCHANGED <<world, opCount, guestEvents>>

\* state, _ = dom.state(); return None unless it is RUNNING
GiState(p) ==
    /\ ops[p].kind = "get_info" /\ ops[p].pc = "gi_state"
    /\ \E fail \in BOOLEAN :
         LET st == domState(domains, ops[p].dom, fail)
             o == [Log(ops[p], "state") EXCEPT !.seen = st]
         IN Goto(p, CASE st = "error" -> Raise([o EXCEPT !.hvErr = TRUE], "libvirtError")
                      [] st = "running" -> [o EXCEPT !.pc = "gi_ip"]
                      [] OTHER -> [o EXCEPT !.pc = "returned", !.result = "none"])
    /\ UNCHANGED <<world, opCount, guestEvents>>

\* ip = self._get_ip(dom): None when the lease query raises
GiIp(p) ==
    /\ ops[p].kind = "get_info" /\ ops[p].pc = "gi_ip"
    /\ \E fail \in BOOLEAN :
         LET o == Log(ops[p], "interfaceAddresses") IN
         Goto(p, IF fail
                 THEN [o EXCEPT !.hvErr = TRUE, !.swallowed = TRUE, !.leaseErr = TRUE,
                                !.ip = "none", !.pc = "gi_spice"]
                 ELSE [o EXCEPT !.leased = leases[ops[p].dom],
                                !.ip = FirstIpv4(leases[ops[p].dom]),
                                !.pc = "gi_spice"])
    /\ UNCHANGED <<world, opCount, guestEvents>>

\* spice_port = self._get_spice_port(dom)
GiSpice(p) ==
    /\ ops[p].kind = "get_info" /\ ops[p].pc = "gi_spice"
    /\ \E r \in SpicePorts \cup {NoSpicePort, -1} :
         LET o == Log(ops[p], "spice_port") IN
         Goto(p, IF r = -1 THEN Raise([o EXCEPT !.hvErr = TRUE], "libvirtError")
                 ELSE [o EXCEPT !.ret.spice_port = r, !.pc = "gi_manifest"])
    /\ UNCHANGED <<world, opCount, guestEvents>>

\* the descriptor get_info returns
InfoDict(o, user, port) ==
    [name |-> o.arg, domain |-> o.domain_name, ip |-> o.ip,
     ssh_user |-> user, ssh_port |-> port, spice_port |-> o.ret.spice_port]

\* mutant of GiManifest: a manifest that is not found is not caught
GiManifest_Propagate(p) ==
    /\ ops[p].kind = "get_info" /\ ops[p].pc = "gi_manifest"
    /\ \E m \in InfoManifests :
         LET o == [Log(ops[p], "find_manifest") EXCEPT !.vm = m] IN
         Goto(p, CASE m.status = "notfound" -> Raise(o, "FileNotFoundError")
                   [] m.status = "invalid" -> Raise(o, "ValueError")
                   [] OTHER ->
                        [o EXCEPT !.pc = "returned", !.result = "descriptor",
                                  !.ret = InfoDict(o,
                                     IF m.status = "nouser" THEN FallbackSshUser
                                     ELSE m.user,
                                     IF m.port = NoPort THEN FallbackSshPort
                                     ELSE m.port)])
    /\ UNCHANGED <<world, opCount, guestEvents>>

\* ssh user and port from the manifest, the fallback when FileNotFoundError
\* is caught; the returned dict
GiManifest(p) ==
    /\ ops[p].kind = "get_info" /\ ops[p].pc = "gi_manifest"
    /\ \E m \in InfoManifests :
         LET o == [Log(ops[p], "find_manifest") EXCEPT !.vm = m] IN
         Goto(p, CASE m.status = "notfound" ->
                        [o EXCEPT !.swallowed = TRUE,
                                  !.pc = "returned", !.result = "descriptor",
                                  !.ret = InfoDict(o, FallbackSshUser, FallbackSshPort)]
                   [] m.status = "invalid" -> Raise(o, "ValueError")
                   [] OTHER ->
                        [o EXCEPT !.pc = "returned", !.result = "descriptor",
                                  !.ret = InfoDict(o,
                                     IF m.status = "nouser" THEN FallbackSshUser
                                     ELSE m.user,
                                     IF m.port = NoPort THEN FallbackSshPort
                                     ELSE m.port)])
    /\ UNCHANGED <<world, opCount, guestEvents>>

\* up calls _wait_for_ip(dom) on the domain it has just started
InfoWaitCall(p) ==
    /\ Finished(ops[p])
    /\ opCount < MaxOps
    /\ opCount' = opCount + 1
    /\ \E d \in domains :
         /\ d.state = "running"
         /\ Goto(p, [IdleOp EXCEPT !.kind = "_wait_for_ip", !.pc = "poll",
                                   !.arg = NameX, !.domain_name = d.name,
                                   !.found = d.uuid, !.dom = d.uuid])
    /\ UNCHANGED <<world, guestEvents>>

\* mutant of InfoWaitPoll: a lease query that raises is not caught
InfoWaitPoll_Propagate(p) ==
    /\ ops[p].kind = "_wait_for_ip" /\ ops[p].pc = "poll"
    /\ LET o == ops[p] IN
       IF o.t >= IpTimeout
       THEN Goto(p, Raise(o, "TimeoutError"))
       ELSE \E fail \in BOOLEAN :
              LET ip == IF fail THEN "none" ELSE FirstIpv4(leases[o.dom])
                  q == [o EXCEPT !.attempts = @ + 1, !.leaseErr = @ \/ fail,
                                 !.hvErr = @ \/ fail]
              IN Goto(p, IF fail THEN Raise(q, "libvirtError")
                         ELSE IF ip # "none"
                         THEN [q EXCEPT !.ip = ip, !.leased = leases[o.dom],
                                        !.pc = "returned"]
                         ELSE [q EXCEPT !.t = @ + IpInterval])
    /\ UNCHANGED <<world, opCount, guestEvents>>

\* one turn of the loop of _wait_for_ip: the deadline test, then
\* ip = self._get_ip(dom), which is None when the lease query raises, then
\* return ip or time.sleep(2); TimeoutError once the deadline has passed
InfoWaitPoll(p) ==
    /\ ops[p].kind = "_wait_for_ip" /\ ops[p].pc = "poll"
    /\ LET o == ops[p] IN
       IF o.t >= IpTimeout
       THEN Goto(p, Raise(o, "TimeoutError"))
       ELSE \E fail \in BOOLEAN :
              LET ip == IF fail THEN "none" ELSE FirstIpv4(leases[o.dom])
                  q == [o EXCEPT !.attempts = @ + 1, !.leaseErr = @ \/ fail,
                                 !.hvErr = @ \/ fail, !.swallowed = @ \/ fail]
              IN Goto(p, IF ip # "none"
                         THEN [q EXCEPT !.ip = ip, !.leased = leases[o.dom],
                                        !.pc = "returned"]
                         ELSE [q EXCEPT !.t = @ + IpInterval])
    /\ UNCHANGED <<world, opCount, guestEvents>>

\* the DHCP server grants, renews or drops leases of an active domain
LeaseEvent ==
    /\ guestEvents < MaxGuestEvents
    /\ \E d \in domains : \E ls \in LeaseLists :
         /\ Active(d) /\ ls # leases[d.uuid]
         /\ leases' = [leases EXCEPT ![d.uuid] = ls]
    /\ guestEvents' = guestEvents + 1
    /\ UNCHANGED <<domains, uuidCtr, imagesDir, cache, vmDirs, opCount, ops>>

\* get_info is called on a host where NameX is not provisioned, or is
\* provisioned with its domain in some state and some leases
InitInfo ==
    \E st \in {"absent", "running", "paused", "shutoff"}, ls \in LeaseLists :
      /\ domains = IF st = "absent" THEN {}
                   ELSE {[uuid |-> 1, name |-> DomainName(NameX), state |-> st,
                          persistent |-> TRUE]}
      /\ uuidCtr = IF st = "absent" THEN 0 ELSE 1
      /\ imagesDir = (st # "absent")
      /\ cache = [f \in ImageFiles |-> IF st = "absent" THEN "absent" ELSE "complete"]
      /\ vmDirs = [n \in Names |->
                     IF st # "absent" /\ n = NameX
                     THEN [exists |-> TRUE, disk |-> "ok", seed |-> TRUE] ELSE NoDir]
      /\ leases = [u \in 1..MaxDefines |->
                     IF u = 1 /\ st \in {"running", "paused"} THEN ls ELSE <<>>]
      /\ opCount = 0
      /\ guestEvents = 0
      /\ ops = [p \in {1} |-> IdleOp]

NextInfo ==
    \/ \E p \in DOMAIN ops : \E name \in Names : CallGetInfo(p, name)
    \/ \E p \in DOMAIN ops : GiLookup(p)
    \/ \E p \in DOMAIN ops : GiState(p)
    \/ \E p \in DOMAIN ops : GiIp(p)
    \/ \E p \in DOMAIN ops : GiSpice(p)
    \/ \E p \in DOMAIN ops : GiManifest(p)
    \/ \E p \in DOMAIN ops : InfoWaitCall(p)
    \/ \E p \in DOMAIN ops : InfoWaitPoll(p)
    \/ LeaseEvent

SpecInfo == InitInfo /\ [][NextInfo]_vars

-----------------------------------------------------------------------------
(* The two polling loops, statement by statement, on a clock of seconds:    *)
(* VMManager._wait_for_ip and SSHClient.wait_until_ready                    *)

\* longest time, in seconds, that one lease query or one handshake attempt
\* takes
MaxLatency == 2

\* the lease source never reports an address
NeverLeased == -1

\* when the lease source starts to report an IPv4 address, in seconds after
\* the wait began
LeaseTimes == {NeverLeased, 0, 7}

\* (timeout, interval) of wait_until_ready: the defaults, and those of
\* test_raises_timeout
SshWaits == {[timeout |-> SshTimeout, interval |-> SshInterval],
             [timeout |-> 4, interval |-> 1]}

\* exceptions of a handshake attempt
ConnErrors == {"OSError", "SSHException"}

NoMsg == [subject |-> <<>>, port |-> 0, timeout |-> 0, last_err |-> "none"]

IdleWait ==
    [kind |-> "none",      \* which loop runs
     pc |-> "idle",        \* "test" | "attempt" | "sleep" | "returned" | "raised"
     timeout |-> 0,
     interval |-> 0,
     host |-> "none",      \* SSHClient.host / the domain's name
     port |-> 0,           \* SSHClient.port
     source |-> NeverLeased,
     now |-> 0,            \* time.monotonic(), counted from the call
     deadline |-> 0,
     latency |-> 0,        \* the time the last attempt took
     attempts |-> 0,
     sleeps |-> 0,
     caught |-> 0,         \* number of exceptions caught so far
     last_err |-> "none",
     ip |-> "none",
     exc |-> "none",
     msg |-> NoMsg]        \* what the TimeoutError message interpolates

\* a caller invokes _wait_for_ip(dom): deadline = time.monotonic() + timeout
CallWaitForIp(p) ==
    /\ ops[p].pc = "idle"
    /\ \E src \in LeaseTimes :
         Goto(p, [IdleWait EXCEPT !.kind = "wait_for_ip", !.pc = "test",
                                  !.timeout = IpTimeout, !.interval = IpInterval,
                                  !.host = DomainName(NameX), !.source = src,
                                  !.deadline = IpTimeout])
    /\ UNCHANGED <<world, opCount, guestEvents>>

\* mutant of WaitIpTest: the loop gives up when the next sleep would pass the
\* deadline
WaitIpTest_GiveUpEarly(p) ==
    /\ ops[p].kind = "wait_for_ip" /\ ops[p].pc = "test"
    /\ Goto(p, IF ops[p].now + ops[p].interval < ops[p].deadline
               THEN [ops[p] EXCEPT !.pc = "attempt"]
               ELSE [ops[p] EXCEPT !.pc = "raised", !.exc = "TimeoutError",
                                   !.msg = [NoMsg EXCEPT !.subject = ops[p].host,
                                                         !.timeout = ops[p].timeout]])
    /\ UNCHANGED <<world, opCount, guestEvents>>

\* while time.monotonic() < deadline: ... raise TimeoutError(...)
WaitIpTest(p) ==
    /\ ops[p].kind = "wait_for_ip" /\ ops[p].pc = "test"
    /\ Goto(p, IF ops[p].now < ops[p].deadline
               THEN [ops[p] EXCEPT !.pc = "attempt"]
               ELSE [ops[p] EXCEPT !.pc = "raised", !.exc = "TimeoutError",
                                   !.msg = [NoMsg EXCEPT !.subject = ops[p].host,
                                                         !.timeout = ops[p].timeout]])
    /\ UNCHANGED <<world, opCount, guestEvents>>

\* ip = self._get_ip(dom); if ip is not None: return ip.  The query takes d
\* seconds; a query that raises yields None
WaitIpQuery(p) ==
    /\ ops[p].kind = "wait_for_ip" /\ ops[p].pc = "attempt"
    /\ \E d \in 0..MaxLatency, fail \in BOOLEAN :
         LET o == [ops[p] EXCEPT !.now = @ + d, !.latency = d, !.attempts = @ + 1]
             seen == ~fail /\ o.source # NeverLeased /\ o.now >= o.source
         IN Goto(p, IF seen THEN [o EXCEPT !.pc = "returned", !.ip = AddrA]
                    ELSE [o EXCEPT !.pc = "sleep"])
    /\ UNCHANGED <<world, opCount, guestEvents>>

\* time.sleep(2)
WaitIpSleep(p) ==
    /\ ops[p].kind = "wait_for_ip" /\ ops[p].pc = "sleep"
    /\ Goto(p, [ops[p] EXCEPT !.now = @ + ops[p].interval, !.sleeps = @ + 1,
                              !.pc = "test"])
    /\ UNCHANGED <<world, opCount, guestEvents>>

\* a caller invokes wait_until_ready(timeout, interval)
CallWaitUntilReady(p) ==
    /\ ops[p].pc = "idle"
    /\ \E w \in SshWaits, port \in {DefaultSshPort, 2222} :
         Goto(p, [IdleWait EXCEPT !.kind = "wait_until_ready", !.pc = "test",
                                  !.timeout = w.timeout, !.interval = w.interval,
                                  !.host = AddrA, !.port = port,
                                  !.deadline = w.timeout])
    /\ UNCHANGED <<world, opCount, guestEvents>>

\* while time.monotonic() < deadline: ... raise TimeoutError(...)
WaitSshTest(p) ==
    /\ ops[p].kind = "wait_until_ready" /\ ops[p].pc = "test"
    /\ Goto(p, IF ops[p].now < ops[p].deadline
               THEN [ops[p] EXCEPT !.pc = "attempt"]
               ELSE [ops[p] EXCEPT !.pc = "raised", !.exc = "TimeoutError",
                                   !.msg = [NoMsg EXCEPT !.subject = ops[p].host,
                                                         !.port = ops[p].port,
                                                         !.timeout = ops[p].timeout,
                                                         !.last_err = ops[p].last_err]])
    /\ UNCHANGED <<world, opCount, guestEvents>>

\* mutant of WaitSshConnect: SSHException is not caught
WaitSshConnect_Escape(p) ==
    /\ ops[p].kind = "wait_until_ready" /\ ops[p].pc = "attempt"
    /\ \E d \in 0..MaxLatency, r \in ConnErrors \cup {"ok"} :
         LET o == [ops[p] EXCEPT !.now = @ + d, !.latency = d, !.attempts = @ + 1]
         IN Goto(p, CASE r = "ok" -> [o EXCEPT !.pc = "returned"]
                      [] r = "SSHException" -> [o EXCEPT !.pc = "raised", !.exc = r]
                      [] OTHER -> [o EXCEPT !.caught = @ + 1, !.last_err = r,
                                            !.pc = "sleep"])
    /\ UNCHANGED <<world, opCount, guestEvents>>

\* mutant of WaitSshConnect: the loop sleeps once more after the handshake
\* that succeeded
WaitSshConnect_SleepAfterOk(p) ==
    /\ ops[p].kind = "wait_until_ready" /\ ops[p].pc = "attempt"
    /\ \E d \in 0..MaxLatency, r \in ConnErrors \cup {"ok"} :
         LET o == [ops[p] EXCEPT !.now = @ + d, !.latency = d, !.attempts = @ + 1]
         IN Goto(p, IF r = "ok"
                    THEN [o EXCEPT !.now = @ + o.interval, !.sleeps = @ + 1,
                                   !.pc = "returned"]
                    ELSE [o EXCEPT !.caught = @ + 1, !.last_err = r,
                                   !.pc = "sleep"])
    /\ UNCHANGED <<world, opCount, guestEvents>>

\* try: self.connect(); return / except Exception as exc: last_err = exc
WaitSshConnect(p) ==
    /\ ops[p].kind = "wait_until_ready" /\ ops[p].pc = "attempt"
    /\ \E d \in 0..MaxLatency, r \in ConnErrors \cup {"ok"} :
         LET o == [ops[p] EXCEPT !.now = @ + d, !.latency = d, !.attempts = @ + 1]
         IN Goto(p, IF r = "ok" THEN [o EXCEPT !.pc = "returned"]
                    ELSE [o EXCEPT !.caught = @ + 1, !.last_err = r,
                                   !.pc = "sleep"])
    /\ UNCHANGED <<world, opCount, guestEvents>>

\* time.sleep(interval)
WaitSshSleep(p) ==
    /\ ops[p].kind = "wait_until_ready" /\ ops[p].pc = "sleep"
    /\ Goto(p, [ops[p] EXCEPT !.now = @ + ops[p].interval, !.sleeps = @ + 1,
                              !.pc = "test"])
    /\ UNCHANGED <<world, opCount, guestEvents>>

InitWait ==
    /\ domains = {}
    /\ uuidCtr = 0
    /\ imagesDir = FALSE
    /\ cache = [f \in ImageFiles |-> "absent"]
    /\ vmDirs = [n \in Names |-> NoDir]
    /\ leases = [u \in 1..MaxDefines |-> <<>>]
    /\ opCount = 0
    /\ guestEvents = 0
    /\ ops = [p \in {1} |-> IdleWait]

NextWait ==
    \/ \E p \in DOMAIN ops : CallWaitForIp(p)
    \/ \E p \in DOMAIN ops : WaitIpTest(p)
    \/ \E p \in DOMAIN ops : WaitIpQuery(p)
    \/ \E p \in DOMAIN ops : WaitIpSleep(p)
    \/ \E p \in DOMAIN ops : CallWaitUntilReady(p)
    \/ \E p \in DOMAIN ops : WaitSshTest(p)
    \/ \E p \in DOMAIN ops : WaitSshConnect(p)
    \/ \E p \in DOMAIN ops : WaitSshSleep(p)

SpecWait == InitWait /\ [][NextWait]_vars

-----------------------------------------------------------------------------
(* _grant_qemu_access, one path component per step *)

\* number of components of a resolved path, the root included
MaxDepth == 3

\* a path component: is it a directory, and does its mode have the
\* other-execute bit (st_mode & 0o001)
Components == [is_dir : BOOLEAN, other_x : BOOLEAN]

\* resolved paths, from the root down to the target: the root is a
\* directory, and below something that is not a directory nothing is one
Paths ==
    {ps \in UNION {[1..n -> Components] : n \in 1..MaxDepth} :
       /\ ps[1].is_dir
       /\ \A i \in 2..Len(ps) : ps[i].is_dir => ps[i - 1].is_dir}

IdleGrant ==
    [kind |-> "none",
     pc |-> "idle",        \* "walk" | "returned" | "raised"
     parts |-> <<>>,       \* list(reversed(path.parents)) + [path]
     i |-> 0,              \* index in parts of the component the loop is at
     calls |-> <<>>,       \* the setfacl calls made: [at, perm, outcome]
     exc |-> "none"]

\* a caller invokes _grant_qemu_access(path)
CallGrant(p) ==
    /\ ops[p].pc = "idle"
    /\ \E ps \in Paths :
         Goto(p, [IdleGrant EXCEPT !.kind = "grant", !.pc = "walk", !.parts = ps,
                                   !.i = 1])
    /\ UNCHANGED <<world, opCount, guestEvents>>

\* mutant of GrantStep: the target always gets its read+execute entry
GrantStep_AlwaysLeaf(p) ==
    /\ ops[p].kind = "grant" /\ ops[p].pc = "walk" /\ ops[p].i <= Len(ops[p].parts)
    /\ LET o == ops[p]
           c == o.parts[o.i]
           leaf == o.i = Len(o.parts)
           next == [o EXCEPT !.i = @ + 1]
       IN IF ~c.is_dir \/ (c.other_x /\ ~leaf)
          THEN Goto(p, next)
          ELSE \E out \in GrantOutcomes :
                 LET call == [at |-> o.i, perm |-> IF leaf THEN "rx" ELSE "x",
                              outcome |-> out]
                 IN Goto(p, IF out = "oserror"
                            THEN [o EXCEPT !.calls = Append(@, call),
                                           !.pc = "raised", !.exc = "OSError"]
                            ELSE [next EXCEPT !.calls = Append(@, call)])
    /\ UNCHANGED <<world, opCount, guestEvents>>

\* mutant of GrantStep: every entry is read+execute
GrantStep_RxOnAll(p) ==
    /\ ops[p].kind = "grant" /\ ops[p].pc = "walk" /\ ops[p].i <= Len(ops[p].parts)
    /\ LET o == ops[p]
           c == o.parts[o.i]
           next == [o EXCEPT !.i = @ + 1]
       IN IF ~c.is_dir \/ c.other_x
          THEN Goto(p, next)
          ELSE \E out \in GrantOutcomes :
                 LET call == [at |-> o.i, perm |-> "rx", outcome |-> out]
                 IN Goto(p, IF out = "oserror"
                            THEN [o EXCEPT !.calls = Append(@, call),
                                           !.pc = "raised", !.exc = "OSError"]
                            ELSE [next EXCEPT !.calls = Append(@, call)])
    /\ UNCHANGED <<world, opCount, guestEvents>>

\* one pass through "for p in parts": skip what is not a directory or is
\* world-executable, else run setfacl -m u:libvirt-qemu:{perm}; a
\* CalledProcessError is logged, any other error of the call propagates
GrantStep(p) ==
    /\ ops[p].kind = "grant" /\ ops[p].pc = "walk" /\ ops[p].i <= Len(ops[p].parts)
    /\ LET o == ops[p]
           c == o.parts[o.i]
           leaf == o.i = Len(o.parts)
           next == [o EXCEPT !.i = @ + 1]
       IN IF ~c.is_dir \/ c.other_x
          THEN Goto(p, next)
          ELSE \E out \in GrantOutcomes :
                 LET call == [at |-> o.i, perm |-> IF leaf THEN "rx" ELSE "x",
                              outcome |-> out]
                 IN Goto(p, IF out = "oserror"
                            THEN [o EXCEPT !.calls = Append(@, call),
                                           !.pc = "raised", !.exc = "OSError"]
                            ELSE [next EXCEPT !.calls = Append(@, call)])
    /\ UNCHANGED <<world, opCount, guestEvents>>

\* the loop is over
GrantReturn(p) ==
    /\ ops[p].kind = "grant" /\ ops[p].pc = "walk" /\ ops[p].i > Len(ops[p].parts)
    /\ Goto(p, [ops[p] EXCEPT !.pc = "returned"])
    /\ UNCHANGED <<world, opCount, guestEvents>>

InitGrant ==
    /\ domains = {}
    /\ uuidCtr = 0
    /\ imagesDir = FALSE
    /\ cache = [f \in ImageFiles |-> "absent"]
    /\ vmDirs = [n \in Names |-> NoDir]
    /\ leases = [u \in 1..MaxDefines |-> <<>>]
    /\ opCount = 0
    /\ guestEvents = 0
    /\ ops = [p \in {1} |-> IdleGrant]

NextGrant ==
    \/ \E p \in DOMAIN ops : CallGrant(p)
    \/ \E p \in DOMAIN ops : GrantStep(p)
    \/ \E p \in DOMAIN ops : GrantReturn(p)

SpecGrant == InitGrant /\ [][NextGrant]_vars

-----------------------------------------------------------------------------
(* VMManager.snapshot and VMManager.restore, one hypervisor call per step *)

\* libvirt errors: the codes of the libvirtError the binding raises

\* errors a hypervisor call can end with whatever its arguments are
Injected == {"none", "VIR_ERR_RPC"}

NoSnap == <<"no snapshot">>

IdleSnap ==
    [kind |-> "none",
     pc |-> "idle",         \* "lookup" | "create" | "snaplookup" | "revert" | "returned" | "raised"
     name |-> <<>>,
     snap_name |-> <<>>,
     dom |-> NoDom,
     snap |-> NoSnap,       \* the snapshot handle restore holds
     snaps |-> {},          \* hypervisor: the names of the snapshots of vmt-x
     reverted |-> NoSnap,   \* hypervisor: the snapshot vmt-x was last reverted to
     hv |-> <<>>,           \* the hypervisor calls made: [call, err]
     exc |-> "none"]

HvCall(o, c, e) == [o EXCEPT !.hv = Append(@, [call |-> c, err |-> e])]

\* a statement of snapshot or restore ends with error e, which nothing in
\* the method catches
SnapRaise(o, e) == [o EXCEPT !.pc = "raised", !.exc = e]

\* a caller invokes snapshot(name, snap_name)
CallSnapshot(p, name, snap_name) ==
    /\ ops[p].pc = "idle"
    /\ Goto(p, [ops[p] EXCEPT !.kind = "snapshot", !.pc = "lookup",
                              !.name = name, !.snap_name = snap_name])
    /\ UNCHANGED <<world, opCount, guestEvents>>

\* a caller invokes restore(name, snap_name)
CallRestore(p, name, snap_name) ==
    /\ ops[p].pc = "idle"
    /\ Goto(p, [ops[p] EXCEPT !.kind = "restore", !.pc = "lookup",
                              !.name = name, !.snap_name = snap_name])
    /\ UNCHANGED <<world, opCount, guestEvents>>

\* mutant of SnapLookup: a failed lookup is swallowed and the method goes on
SnapLookup_Swallow(p) ==
    /\ ops[p].kind \in {"snapshot", "restore"} /\ ops[p].pc = "lookup"
    /\ \E f \in Injected :
         LET o == ops[p]
             d == lookupByName(domains, DomainName(o.name), f # "none")
             e == IF f # "none" THEN f ELSE IF d = NoDom THEN "VIR_ERR_NO_DOMAIN" ELSE "none"
             after == [HvCall(o, "lookupByName", e) EXCEPT !.dom = d]
         IN Goto(p, [after EXCEPT !.pc = IF o.kind = "snapshot" THEN "create"
                                         ELSE "snaplookup"])
    /\ UNCHANGED <<world, opCount, guestEvents>>

\* dom = self._conn.lookupByName(f"vmt-{name}")
SnapLookup(p) ==
    /\ ops[p].kind \in {"snapshot", "restore"} /\ ops[p].pc = "lookup"
    /\ \E f \in Injected :
         LET o == ops[p]
             d == lookupByName(domains, DomainName(o.name), f # "none")
             e == IF f # "none" THEN f ELSE IF d = NoDom THEN "VIR_ERR_NO_DOMAIN" ELSE "none"
             after == [HvCall(o, "lookupByName", e) EXCEPT !.dom = d]
         IN Goto(p, IF e # "none" THEN SnapRaise(after, e)
                    ELSE [after EXCEPT !.pc = IF o.kind = "snapshot" THEN "create"
                                              ELSE "snaplookup"])
    /\ UNCHANGED <<world, opCount, guestEvents>>

\* dom.snapshotCreateXML(f"<domainsnapshot><name>{snap_name}</name></domainsnapshot>"):
\* the hypervisor parses the document and stores a snapshot under the name
\* it reads
SnapCreate(p) ==
    /\ ops[p].kind = "snapshot" /\ ops[p].pc = "create"
    /\ \E f \in Injected :
         LET o == ops[p]
             n == XmlText(o.snap_name)
             e == IF f # "none" THEN f
                  ELSE IF n = Malformed THEN "VIR_ERR_XML_ERROR"
                  ELSE IF n \in o.snaps THEN "VIR_ERR_OPERATION_FAILED" ELSE "none"
             after == HvCall(o, "snapshotCreateXML", e)
         IN Goto(p, IF e # "none" THEN SnapRaise(after, e)
                    ELSE [after EXCEPT !.snaps = @ \cup {n}, !.pc = "returned"])
    /\ UNCHANGED <<world, opCount, guestEvents>>

\* snap = dom.snapshotLookupByName(snap_name)
RestoreLookup(p) ==
    /\ ops[p].kind = "restore" /\ ops[p].pc = "snaplookup"
    /\ \E f \in Injected :
         LET o == ops[p]
             e == IF f # "none" THEN f
                  ELSE IF o.snap_name \notin o.snaps THEN "VIR_ERR_NO_DOMAIN_SNAPSHOT" ELSE "none"
             after == HvCall(o, "snapshotLookupByName", e)
         IN Goto(p, IF e # "none" THEN SnapRaise(after, e)
                    ELSE [after EXCEPT !.snap = o.snap_name, !.pc = "revert"])
    /\ UNCHANGED <<world, opCount, guestEvents>>

\* dom.revertToSnapshot(snap)
RestoreRevert(p) ==
    /\ ops[p].kind = "restore" /\ ops[p].pc = "revert"
    /\ \E f \in Injected :
         LET o == ops[p]
             after == HvCall(o, "revertToSnapshot", f)
         IN Goto(p, IF f # "none" THEN SnapRaise(after, f)
                    ELSE [after EXCEPT !.reverted = o.snap, !.pc = "returned"])
    /\ UNCHANGED <<world, opCount, guestEvents>>

\* snapshot or restore is called on a host where NameX is not provisioned,
\* or is provisioned with some snapshots taken
InitSnap ==
    \E st \in {"absent", "running", "shutoff"}, ss \in SUBSET ({XmlText(s) : s \in Names} \ {Malformed}) :
      /\ domains = IF st = "absent" THEN {}
                   ELSE {[uuid |-> 1, name |-> DomainName(NameX), state |-> st,
                          persistent |-> TRUE]}
      /\ uuidCtr = IF st = "absent" THEN 0 ELSE 1
      /\ imagesDir = (st # "absent")
      /\ cache = [f \in ImageFiles |-> IF st = "absent" THEN "absent" ELSE "complete"]
      /\ vmDirs = [n \in Names |->
                     IF st # "absent" /\ n = NameX
                     THEN [exists |-> TRUE, disk |-> "ok", seed |-> TRUE] ELSE NoDir]
      /\ leases = [u \in 1..MaxDefines |-> <<>>]
      /\ opCount = 0
      /\ guestEvents = 0
      /\ ops = [p \in {1} |->
                  [IdleSnap EXCEPT !.snaps = IF st = "absent" THEN {} ELSE ss]]

NextSnap ==
    \/ \E p \in DOMAIN ops : \E n \in Names, s \in Names : CallSnapshot(p, n, s)
    \/ \E p \in DOMAIN ops : \E n \in Names, s \in Names : CallRestore(p, n, s)
    \/ \E p \in DOMAIN ops : SnapLookup(p)
    \/ \E p \in DOMAIN ops : SnapCreate(p)
    \/ \E p \in DOMAIN ops : RestoreLookup(p)
    \/ \E p \in DOMAIN ops : RestoreRevert(p)

SpecSnap == InitSnap /\ [][NextSnap]_vars

-----------------------------------------------------------------------------
(* The command handlers of cli.py, with the hypervisor connection of their *)
(* VMManager                                                               *)

\* commands that open a VMManager
Commands == {"up", "destroy", "ssh", "view", "screenshot", "test", "snapshot",
             "restore"}

IdleCli ==
    [kind |-> "none",
     pc |-> "idle",        \* "info" | "body" | "finally" | "done" | "replaced"
     cmd |-> "none",
     name |-> <<>>,
     interactive |-> FALSE, \* ssh: args.cmd is empty
     info |-> "unknown",   \* what mgr.get_info returned: "info" | "none" | "raise"
     conn |-> "none",      \* mgr._conn: "none" | "open" | "closed"
     client |-> "none",    \* the SSHClient of the handler: "none" | "created" | "closed"
     exit |-> "none"]      \* "return" | "raise" | "exit0" | "exit1" | "exec"

\* the handler leaves its try block with outcome e
CliLeave(o, e) == [o EXCEPT !.pc = "finally", !.exit = e]

\* mgr = _get_manager(): libvirt.open succeeds, or VMManager.__init__
\* raises before the handler's try block is entered
CliOpen(p, cmd, name, interactive) ==
    /\ ops[p].pc = "idle"
    /\ \E ok \in BOOLEAN :
         Goto(p, IF ok
                 THEN [ops[p] EXCEPT !.kind = "cli", !.cmd = cmd, !.name = name,
                                     !.interactive = interactive,
                                     !.conn = "open",
                                     !.pc = IF cmd \in {"ssh", "view", "screenshot", "test"} THEN "info"
                                            ELSE "body"]
                 ELSE [ops[p] EXCEPT !.kind = "cli", !.cmd = cmd, !.name = name,
                                     !.interactive = interactive,
                                     !.pc = "done", !.exit = "raise"])
    /\ UNCHANGED <<world, opCount, guestEvents>>

\* mutant of CliGetInfo: a handler goes on when the VM is not running
CliGetInfo_GoOn(p) ==
    /\ ops[p].kind = "cli" /\ ops[p].pc = "info"
    /\ \E r \in {"info", "none", "raise"} :
         LET o == [ops[p] EXCEPT !.info = r] IN
         Goto(p, IF r \in {"info", "none"} THEN [o EXCEPT !.pc = "body"]
                 ELSE CliLeave(o, "raise"))
    /\ UNCHANGED <<world, opCount, guestEvents>>

\* info = mgr.get_info(args.name); if info is None: sys.exit(1)
CliGetInfo(p) ==
    /\ ops[p].kind = "cli" /\ ops[p].pc = "info"
    /\ \E r \in {"info", "none", "raise"} :
         LET o == [ops[p] EXCEPT !.info = r] IN
         Goto(p, IF r = "info" THEN [o EXCEPT !.pc = "body"]
                 ELSE IF r = "none" THEN CliLeave(o, "exit1")
                 ELSE CliLeave(o, "raise"))
    /\ UNCHANGED <<world, opCount, guestEvents>>

\* the ways the rest of a handler's try block can end
BodyOutcomes(cmd, interactive) ==
    IF cmd \in {"up", "destroy", "snapshot", "restore"} THEN {"return", "raise"}
    ELSE IF cmd = "ssh" THEN
        IF interactive THEN {"exec", "raise"} ELSE {"exit0", "exit1", "raise"}
    ELSE IF cmd = "view" THEN {"return", "exit1", "raise"}
    ELSE IF cmd = "screenshot" THEN {"return", "raise"}
    ELSE {"return", "exit1", "raise"}

\* the rest of the try block: the manager call of up, destroy, snapshot and
\* restore; os.execvp or client.run of ssh; the viewer of view; the
\* download of screenshot; the scenarios of test.  A client that was
\* created is closed by the inner finally.  os.execvp replaces the process
\* image when it succeeds: nothing of the handler runs after it.
CliBody(p) ==
    /\ ops[p].kind = "cli" /\ ops[p].pc = "body"
    /\ \E e \in BodyOutcomes(ops[p].cmd, ops[p].interactive) :
         LET o == ops[p]
             withClient == /\ o.cmd \in {"ssh", "screenshot", "test"}
                           /\ ~(o.cmd = "ssh" /\ o.interactive)
             after == IF withClient THEN [o EXCEPT !.client = "closed"] ELSE o
         IN Goto(p, IF e = "exec" THEN [after EXCEPT !.pc = "replaced", !.exit = "exec"]
                    ELSE CliLeave(after, e))
    /\ UNCHANGED <<world, opCount, guestEvents>>

\* finally: mgr.close(), then the return, the error or the SystemExit
\* goes on
CliFinally(p) ==
    /\ ops[p].kind = "cli" /\ ops[p].pc = "finally"
    /\ Goto(p, [ops[p] EXCEPT !.conn = "closed", !.pc = "done"])
    /\ UNCHANGED <<world, opCount, guestEvents>>

InitCli ==
    /\ domains = {}
    /\ uuidCtr = 0
    /\ imagesDir = FALSE
    /\ cache = [f \in ImageFiles |-> "absent"]
    /\ vmDirs = [n \in Names |-> NoDir]
    /\ leases = [u \in 1..MaxDefines |-> <<>>]
    /\ opCount = 0
    /\ guestEvents = 0
    /\ ops = [p \in {1} |-> IdleCli]

NextCli ==
    \/ \E p \in DOMAIN ops : \E cmd \in Commands, n \in Names, i \in BOOLEAN :
         /\ (i => cmd = "ssh")
         /\ CliOpen(p, cmd, n, i)
    \/ \E p \in DOMAIN ops : CliGetInfo(p)
    \/ \E p \in DOMAIN ops : CliBody(p)
    \/ \E p \in DOMAIN ops : CliFinally(p)

SpecCli == InitCli /\ [][NextCli]_vars

-----------------------------------------------------------------------------
(* Functions without state: generate_domain_xml, get_ssh_key_path,         *)
(* find_manifest and load_vm_manifest, applied to inputs of a caller       *)

\* number of directories in a search list
MaxDirs == 2

\* what a path can name: nothing, a regular file, a directory
EntryKinds == {"absent", "file", "dir"}

\* Path.exists()
Exists(kind) == kind # "absent"

\* Path.is_file()
IsFile(kind) == kind = "file"

\* _KEY_NAMES
KEY_NAMES == <<"id_ed25519", "id_rsa", "id_ecdsa">>

NoPath == <<>>

\* mutant of get_ssh_key_path: the last of the three names that exists wins
get_ssh_key_path_Last(ssh_dir) ==
    LET found == {i \in 1..Len(KEY_NAMES) : Exists(ssh_dir[KEY_NAMES[i]])}
    IN IF found = {}
       THEN [status |-> "FileNotFoundError", path |-> NoPath]
       ELSE [status |-> "ok",
             path |-> <<"~", ".ssh",
                        KEY_NAMES[CHOOSE i \in found : \A j \in found : j <= i]>>]

\* get_ssh_key_path: for name in _KEY_NAMES: if (ssh_dir / name).exists():
\* return it; else raise FileNotFoundError
get_ssh_key_path(ssh_dir) ==
    LET found == {i \in 1..Len(KEY_NAMES) : Exists(ssh_dir[KEY_NAMES[i]])}
    IN IF found = {}
       THEN [status |-> "FileNotFoundError", path |-> NoPath]
       ELSE [status |-> "ok",
             path |-> <<"~", ".ssh",
                        KEY_NAMES[CHOOSE i \in found : \A j \in found : i <= j]>>]

\* f"{name}.toml"
TomlName(name) == name \o <<".", "t", "o", "m", "l">>

\* manifest directories, and what each holds under a file name
ManifestDirs == {"d1", "d2"}

Entry(fs, d, file) == IF file \in DOMAIN fs[d] THEN fs[d][file] ELSE "absent"

\* mutant of find_manifest: the last directory that has the file wins
find_manifest_Last(fs, name, search_dirs) ==
    LET filename == TomlName(name)
        found == {i \in 1..Len(search_dirs) : IsFile(Entry(fs, search_dirs[i], filename))}
    IN IF found = {}
       THEN [status |-> "FileNotFoundError", path |-> NoPath]
       ELSE [status |-> "ok",
             path |-> <<search_dirs[CHOOSE i \in found : \A j \in found : j <= i],
                        filename>>]

\* find_manifest: for d in search_dirs: if (d / filename).is_file(): return
\* it; else raise FileNotFoundError
find_manifest(fs, name, search_dirs) ==
    LET filename == TomlName(name)
        found == {i \in 1..Len(search_dirs) : IsFile(Entry(fs, search_dirs[i], filename))}
    IN IF found = {}
       THEN [status |-> "FileNotFoundError", path |-> NoPath]
       ELSE [status |-> "ok",
             path |-> <<search_dirs[CHOOSE i \in found : \A j \in found : i <= j],
                        filename>>]

\* _VM_REQUIRED_SECTIONS, _VM_REQUIRED_FIELDS, _VM_DEFAULTS
VM_REQUIRED_SECTIONS == <<"vm", "provision", "ssh">>
VM_REQUIRED_FIELDS == <<"name", "image">>
VM_DEFAULTS == [memory |-> DefaultMemory, cpus |-> DefaultCpus, disk |-> DefaultDisk]

\* a TOML table with no keys
EmptyTable == [k \in {} |-> 0]

\* the key is absent from the table
NoValue == -1

\* a table with key k when present holds, and no key otherwise
Key(present, k, v) == IF present THEN k :> v ELSE EmptyTable

\* what tomllib.load returns: the tables vm, provision and ssh, each
\* present or not; in [vm], name and image given or not, and memory, cpus
\* and disk given or not
Documents ==
    {Key(c.vm, "vm",
         Key(c.name, "name", NameX) @@ Key(c.image, "image", RefBase)
           @@ Key(c.memory # NoValue, "memory", c.memory)
           @@ Key(c.cpus # NoValue, "cpus", c.cpus)
           @@ Key(c.disk # NoValue, "disk", c.disk))
       @@ Key(c.provision, "provision", Key(c.env, "env", "K" :> "v"))
       @@ Key(c.ssh, "ssh", "user" :> "root") :
     c \in [vm : BOOLEAN, provision : BOOLEAN, ssh : BOOLEAN, env : BOOLEAN,
            name : BOOLEAN, image : BOOLEAN, memory : {NoValue, 0, 4096},
            cpus : {NoValue, 4}, disk : {NoValue, 20}]}

\* the first element of a tuple that is not a key of a table, "" when
\* every one is
FirstMissing(required, table) ==
    LET missing == {i \in 1..Len(required) : required[i] \notin DOMAIN table}
    IN IF missing = {} THEN ""
       ELSE required[CHOOSE i \in missing : \A j \in missing : i <= j]

\* table.setdefault(key, default) for every (key, default) of defaults
SetDefaults(table, defaults) ==
    [k \in DOMAIN table \cup DOMAIN defaults |->
       IF k \in DOMAIN table THEN table[k] ELSE defaults[k]]

\* mutant of load_vm_manifest: the defaults replace what the file gives
load_vm_manifest_Overwrite(data) ==
    IF FirstMissing(VM_REQUIRED_SECTIONS, data) # ""
    THEN [status |-> "ValueError",
          missing |-> FirstMissing(VM_REQUIRED_SECTIONS, data), data |-> EmptyTable]
    ELSE IF FirstMissing(VM_REQUIRED_FIELDS, data["vm"]) # ""
    THEN [status |-> "ValueError",
          missing |-> FirstMissing(VM_REQUIRED_FIELDS, data["vm"]), data |-> EmptyTable]
    ELSE [status |-> "ok", missing |-> "",
          data |-> [data EXCEPT !["vm"] = SetDefaults(VM_DEFAULTS, @),
                                !["provision"] = SetDefaults(@, "env" :> EmptyTable)]]

\* load_vm_manifest on a file that tomllib reads as data: the section
\* check, the field check, the defaults of [vm] and provision.env
load_vm_manifest(data) ==
    IF FirstMissing(VM_REQUIRED_SECTIONS, data) # ""
    THEN [status |-> "ValueError",
          missing |-> FirstMissing(VM_REQUIRED_SECTIONS, data), data |-> EmptyTable]
    ELSE IF FirstMissing(VM_REQUIRED_FIELDS, data["vm"]) # ""
    THEN [status |-> "ValueError",
          missing |-> FirstMissing(VM_REQUIRED_FIELDS, data["vm"]), data |-> EmptyTable]
    ELSE [status |-> "ok", missing |-> "",
          data |-> [data EXCEPT !["vm"] = SetDefaults(@, VM_DEFAULTS),
                                !["provision"] = SetDefaults(@, "env" :> EmptyTable)]]

IdleFn ==
    [kind |-> "none",
     pc |-> "idle",     \* "called" | "repeated"
     fn |-> "none",
     args |-> <<>>,
     out |-> <<>>,      \* what the call returned or raised
     again |-> <<>>]    \* what a second call with the same arguments returned

\* a caller invokes generate_domain_xml
CallGenerateDomainXml(p) ==
    /\ ops[p].pc = "idle"
    /\ \E n \in Names, m \in {1, 2048, 4096}, c \in {1, 2, 4},
          d \in {<<"vms", "x", "disk.qcow2">>, <<"vms", "y", "disk.qcow2">>},
          s \in {<<"vms", "x", "seed.iso">>} :
         Goto(p, [ops[p] EXCEPT !.kind = "fn", !.pc = "called",
                    !.fn = "generate_domain_xml",
                    !.args = [name |-> n, memory_mb |-> m, cpus |-> c,
                              disk_path |-> d, cloud_init_iso |-> s],
                    !.out = generate_domain_xml(n, m, c, d, s)])
    /\ UNCHANGED <<world, opCount, guestEvents>>

\* the caller invokes generate_domain_xml once more with the same arguments
RepeatGenerateDomainXml(p) ==
    /\ ops[p].kind = "fn" /\ ops[p].pc = "called"
    /\ ops[p].fn = "generate_domain_xml"
    /\ LET a == ops[p].args
       IN Goto(p, [ops[p] EXCEPT !.pc = "repeated",
                     !.again = generate_domain_xml(a.name, a.memory_mb, a.cpus,
                                                   a.disk_path, a.cloud_init_iso)])
    /\ UNCHANGED <<world, opCount, guestEvents>>

\* a caller invokes get_ssh_key_path, with some contents of ~/.ssh
CallGetSshKeyPath(p) ==
    /\ ops[p].pc = "idle"
    /\ \E dir \in [{"id_ed25519", "id_rsa", "id_ecdsa", "id_dsa"} -> EntryKinds] :
         Goto(p, [ops[p] EXCEPT !.kind = "fn", !.pc = "called",
                    !.fn = "get_ssh_key_path", !.args = [ssh_dir |-> dir],
                    !.out = get_ssh_key_path(dir)])
    /\ UNCHANGED <<world, opCount, guestEvents>>

\* a caller invokes find_manifest
CallFindManifest(p) ==
    /\ ops[p].pc = "idle"
    /\ \E fs \in [ManifestDirs -> [{TomlName(NameX)} -> EntryKinds]],
          n \in {NameX, NameLt},
          dirs \in UNION {[1..k -> ManifestDirs] : k \in 0..MaxDirs} :
         Goto(p, [ops[p] EXCEPT !.kind = "fn", !.pc = "called",
                    !.fn = "find_manifest",
                    !.args = [fs |-> fs, name |-> n, search_dirs |-> dirs],
                    !.out = find_manifest(fs, n, dirs)])
    /\ UNCHANGED <<world, opCount, guestEvents>>

\* a caller invokes load_vm_manifest
CallLoadVmManifest(p) ==
    /\ ops[p].pc = "idle"
    /\ \E doc \in Documents :
         Goto(p, [ops[p] EXCEPT !.kind = "fn", !.pc = "called",
                    !.fn = "load_vm_manifest", !.args = [data |-> doc],
                    !.out = load_vm_manifest(doc)])
    /\ UNCHANGED <<world, opCount, guestEvents>>

InitFn ==
    /\ domains = {}
    /\ uuidCtr = 0
    /\ imagesDir = FALSE
    /\ cache = [f \in ImageFiles |-> "absent"]
    /\ vmDirs = [n \in Names |-> NoDir]
    /\ leases = [u \in 1..MaxDefines |-> <<>>]
    /\ opCount = 0
    /\ guestEvents = 0
    /\ ops = [p \in {1} |-> IdleFn]

NextFn ==
    \/ \E p \in DOMAIN ops : CallGenerateDomainXml(p)
    \/ \E p \in DOMAIN ops : RepeatGenerateDomainXml(p)
    \/ \E p \in DOMAIN ops : CallGetSshKeyPath(p)
    \/ \E p \in DOMAIN ops : CallFindManifest(p)
    \/ \E p \in DOMAIN ops : CallLoadVmManifest(p)

SpecFn == InitFn /\ [][NextFn]_vars

-----------------------------------------------------------------------------
(* Two up calls at the same time, for different VM names: steps 2 and 3    *)
(* one file system call per step, steps 4 to 9 as one                      *)

NameY == <<"y">>

\* the VM name of the manifest each process brings up
PairNames == <<NameX, NameY>>

\* the image references of their manifests
PairImageRefs == {RefBase, <<"http:", "", "h", "other.qcow2">>}

IdlePair ==
    [kind |-> "none",
     pc |-> "idle",       \* "image" | "fetch" | "fetching" | "overlay" | "rest" | "returned" | "raised"
     name |-> <<>>,
     file |-> "",         \* image_filename
     hit |-> FALSE,       \* base_image.exists() was true
     backing |-> "none",  \* the state of base_image when qemu-img read it
     dom |-> NoDom,
     exc |-> "none"]

\* another process has base_image open for writing
WrittenByOther(p, file) ==
    \E q \in DOMAIN ops \ {p} : ops[q].pc = "fetching" /\ ops[q].file = file

\* 1. up(name) has loaded a manifest
PairCall(p) ==
    /\ ops[p].pc = "idle"
    /\ \E ref \in PairImageRefs :
         Goto(p, [ops[p] EXCEPT !.kind = "up2", !.pc = "image",
                                !.name = PairNames[p], !.file = ImageFilename(ref)])
    /\ UNCHANGED <<world, opCount, guestEvents>>

\* 2. _IMAGES_DIR.mkdir(...); if not base_image.exists()
PairImageTest(p) ==
    /\ ops[p].kind = "up2" /\ ops[p].pc = "image"
    /\ imagesDir' = TRUE
    /\ Goto(p, IF base_image_exists(TRUE, cache, ops[p].file)
               THEN [ops[p] EXCEPT !.hit = TRUE, !.pc = "overlay"]
               ELSE [ops[p] EXCEPT !.pc = "fetch"])
    /\ UNCHANGED <<domains, uuidCtr, cache, vmDirs, leases, opCount, guestEvents>>

\* urlretrieve opens the url, then opens base_image itself for writing
PairFetchOpen(p) ==
    /\ ops[p].kind = "up2" /\ ops[p].pc = "fetch"
    /\ \E ok \in BOOLEAN :
         IF ok
         THEN /\ cache' = [cache EXCEPT ![ops[p].file] = "partial"]
              /\ Goto(p, [ops[p] EXCEPT !.pc = "fetching"])
         ELSE /\ cache' = cache
              /\ Goto(p, [ops[p] EXCEPT !.pc = "raised", !.exc = "URLError"])
    /\ UNCHANGED <<domains, uuidCtr, imagesDir, vmDirs, leases, opCount, guestEvents>>

\* urlretrieve has written its last block, or fails part-way and leaves
\* what it wrote; the file is whole once no writer is left
PairFetchDone(p) ==
    /\ ops[p].kind = "up2" /\ ops[p].pc = "fetching"
    /\ \E ok \in BOOLEAN :
         IF ok
         THEN /\ cache' = [cache EXCEPT ![ops[p].file] =
                             IF WrittenByOther(p, ops[p].file) THEN "partial"
                             ELSE "complete"]
              /\ Goto(p, [ops[p] EXCEPT !.pc = "overlay"])
         ELSE /\ cache' = cache
              /\ Goto(p, [ops[p] EXCEPT !.pc = "raised", !.exc = "URLError"])
    /\ UNCHANGED <<domains, uuidCtr, imagesDir, vmDirs, leases, opCount, guestEvents>>

\* 3. workdir = _vm_dir(vm_name); qemu-img create -b base_image overlay
PairOverlay(p) ==
    /\ ops[p].kind = "up2" /\ ops[p].pc = "overlay"
    /\ \E ok \in BOOLEAN :
         LET n == ops[p].name
             o == [ops[p] EXCEPT !.backing = cache[ops[p].file]]
         IN IF ok
            THEN /\ vmDirs' = [vm_dir(vmDirs, n) EXCEPT ![n].disk = "ok"]
                 /\ Goto(p, [o EXCEPT !.pc = "rest"])
            ELSE /\ vmDirs' = vm_dir(vmDirs, n)
                 /\ Goto(p, [o EXCEPT !.pc = "raised", !.exc = "CalledProcessError"])
    /\ UNCHANGED <<domains, uuidCtr, imagesDir, cache, leases, opCount, guestEvents>>

\* 4. to 9.: seed image, grants, clean-up, define, start, waits
PairRest(p) ==
    /\ ops[p].kind = "up2" /\ ops[p].pc = "rest"
    /\ \E ok \in BOOLEAN :
         IF ok
         THEN /\ uuidCtr' = uuidCtr + 1
              /\ domains' = {d \in domains : d.name # DomainName(ops[p].name)}
                    \cup {[uuid |-> uuidCtr + 1, name |-> DomainName(ops[p].name),
                           state |-> "running", persistent |-> TRUE]}
              /\ vmDirs' = [vmDirs EXCEPT ![ops[p].name].seed = TRUE]
              /\ Goto(p, [ops[p] EXCEPT !.pc = "returned", !.dom = uuidCtr + 1])
         ELSE /\ UNCHANGED <<uuidCtr, domains, vmDirs>>
              /\ Goto(p, [ops[p] EXCEPT !.pc = "raised", !.exc = "Error"])
    /\ UNCHANGED <<imagesDir, cache, leases, opCount, guestEvents>>

\* neither VM is provisioned; the images are cached or not
InitPair ==
    \E c \in [{ImageFilename(r) : r \in PairImageRefs} -> {"absent", "complete"}] :
      /\ domains = {}
      /\ uuidCtr = 0
      /\ imagesDir = (\E f \in DOMAIN c : c[f] # "absent")
      /\ cache = c
      /\ vmDirs = [n \in {PairNames[i] : i \in 1..2} |-> NoDir]
      /\ leases = [u \in 1..MaxDefines |-> <<>>]
      /\ opCount = 0
      /\ guestEvents = 0
      /\ ops = [p \in {1, 2} |-> IdlePair]

NextPair ==
    \/ \E p \in DOMAIN ops : PairCall(p)
    \/ \E p \in DOMAIN ops : PairImageTest(p)
    \/ \E p \in DOMAIN ops : PairFetchOpen(p)
    \/ \E p \in DOMAIN ops : PairFetchDone(p)
    \/ \E p \in DOMAIN ops : PairOverlay(p)
    \/ \E p \in DOMAIN ops : PairRest(p)

SpecPair == InitPair /\ [][NextPair]_vars

-----------------------------------------------------------------------------
(* SSHClient: the connection it holds, and step 8 of up, which uses one    *)

\* number of method calls on one SSHClient
MaxSshOps == 4

\* number of connect attempts wait_until_ready makes before its deadline
MaxAttempts == 2

\* self._client is None
NoConn == 0

NoLast == [op |-> "none", was |-> NoConn, openBefore |-> {}, connects |-> 0,
           outcome |-> "none"]

IdleSsh ==
    [kind |-> "none",
     pc |-> "idle",      \* "ready"; step 8: "wait" | "close" | "spice" | "returned" | "raised"
     client |-> NoConn,  \* self._client: the paramiko connection held
     open |-> {},        \* the paramiko connections opened and not closed
     made |-> 0,         \* connections opened so far
     n |-> 0,            \* method calls so far
     attempts |-> 0,     \* wait_until_ready: connect attempts that failed
     last |-> NoLast,    \* the last method call: what it found and did
     exc |-> "none"]

\* SSHClient.connect when the handshake succeeds: self._client = client
Connected(o) ==
    [o EXCEPT !.client = o.made + 1, !.open = @ \cup {o.made + 1}, !.made = @ + 1]

\* SSHClient.close: if self._client is not None: close it, forget it
Closed(o) ==
    IF o.client # NoConn THEN [o EXCEPT !.open = @ \ {o.client}, !.client = NoConn]
    ELSE o

\* SSHClient(host, user, port)
SshNew(p) ==
    /\ ops[p].pc = "idle"
    /\ Goto(p, [ops[p] EXCEPT !.kind = "ssh", !.pc = "ready"])
    /\ UNCHANGED <<world, opCount, guestEvents>>

\* mutant of SshUse: every call opens a connection of its own
SshUse_AlwaysConnect(p, op) ==
    /\ ops[p].kind = "ssh" /\ ops[p].pc = "ready" /\ ops[p].n < MaxSshOps
    /\ \E connectOk \in BOOLEAN, opOk \in BOOLEAN :
         LET o == [ops[p] EXCEPT !.n = @ + 1]
             l == [op |-> op, was |-> o.client, openBefore |-> o.open,
                   connects |-> 1, outcome |-> "ok"]
         IN Goto(p, IF ~connectOk
                    THEN [o EXCEPT !.last = [l EXCEPT !.outcome = "connect raised"]]
                    ELSE [Connected(o) EXCEPT !.last =
                            [l EXCEPT !.outcome = IF opOk THEN "ok" ELSE "raised"]])
    /\ UNCHANGED <<world, opCount, guestEvents>>

\* run, download, upload: client = self._ensure_connected(), then the
\* command or the transfer on it
SshUse(p, op) ==
    /\ ops[p].kind = "ssh" /\ ops[p].pc = "ready" /\ ops[p].n < MaxSshOps
    /\ \E connectOk \in BOOLEAN, opOk \in BOOLEAN :
         LET o == [ops[p] EXCEPT !.n = @ + 1]
             need == o.client = NoConn
             l == [op |-> op, was |-> o.client, openBefore |-> o.open,
                   connects |-> IF need THEN 1 ELSE 0, outcome |-> "ok"]
         IN Goto(p, IF need /\ ~connectOk
                    THEN [o EXCEPT !.last = [l EXCEPT !.outcome = "connect raised"]]
                    ELSE [(IF need THEN Connected(o) ELSE o) EXCEPT !.last =
                            [l EXCEPT !.outcome = IF opOk THEN "ok" ELSE "raised"]])
    /\ UNCHANGED <<world, opCount, guestEvents>>

\* connect() called by the owner of the client
SshConnect(p) ==
    /\ ops[p].kind = "ssh" /\ ops[p].pc = "ready" /\ ops[p].n < MaxSshOps
    /\ \E connectOk \in BOOLEAN :
         LET o == [ops[p] EXCEPT !.n = @ + 1]
             l == [op |-> "connect", was |-> o.client, openBefore |-> o.open,
                   connects |-> 1, outcome |-> "ok"]
         IN Goto(p, IF connectOk THEN [Connected(o) EXCEPT !.last = l]
                    ELSE [o EXCEPT !.last = [l EXCEPT !.outcome = "connect raised"]])
    /\ UNCHANGED <<world, opCount, guestEvents>>

\* close() called by the owner of the client
SshClose(p) ==
    /\ ops[p].kind = "ssh" /\ ops[p].pc = "ready" /\ ops[p].n < MaxSshOps
    /\ LET o == [ops[p] EXCEPT !.n = @ + 1]
           l == [op |-> "close", was |-> o.client, openBefore |-> o.open,
                 connects |-> 0, outcome |-> "ok"]
       IN Goto(p, [Closed(o) EXCEPT !.last = l])
    /\ UNCHANGED <<world, opCount, guestEvents>>

\* 8. ssh = SSHClient(host=ip, user=ssh_user, port=ssh_port): the key is
\* found, or get_ssh_key_path raises
Up8New(p) ==
    /\ ops[p].pc = "idle"
    /\ \E key \in BOOLEAN :
         Goto(p, IF key THEN [ops[p] EXCEPT !.kind = "up8", !.pc = "wait"]
                 ELSE [ops[p] EXCEPT !.kind = "up8", !.pc = "raised",
                                     !.exc = "FileNotFoundError"])
    /\ UNCHANGED <<world, opCount, guestEvents>>

\* wait_until_ready, one pass of the loop: connect() and return, or catch
\* the error and sleep
Up8Attempt(p) ==
    /\ ops[p].kind = "up8" /\ ops[p].pc = "wait" /\ ops[p].attempts < MaxAttempts
    /\ \E connectOk \in BOOLEAN :
         Goto(p, IF connectOk THEN [Connected(ops[p]) EXCEPT !.pc = "close"]
                 ELSE [ops[p] EXCEPT !.attempts = @ + 1])
    /\ UNCHANGED <<world, opCount, guestEvents>>

\* wait_until_ready: the deadline has passed, raise TimeoutError
Up8Timeout(p) ==
    /\ ops[p].kind = "up8" /\ ops[p].pc = "wait" /\ ops[p].attempts = MaxAttempts
    /\ Goto(p, [ops[p] EXCEPT !.pc = "raised", !.exc = "TimeoutError"])
    /\ UNCHANGED <<world, opCount, guestEvents>>

\* mutant of Up8Close: up goes on without closing the client
Up8Close_Skip(p) ==
    /\ ops[p].kind = "up8" /\ ops[p].pc = "close"
    /\ Goto(p, [ops[p] EXCEPT !.pc = "spice"])
    /\ UNCHANGED <<world, opCount, guestEvents>>

\* ssh.close()
Up8Close(p) ==
    /\ ops[p].kind = "up8" /\ ops[p].pc = "close"
    /\ Goto(p, [Closed(ops[p]) EXCEPT !.pc = "spice"])
    /\ UNCHANGED <<world, opCount, guestEvents>>

\* 9. _get_spice_port(dom) and the descriptor, or the error of the
\* hypervisor
Up8Return(p) ==
    /\ ops[p].kind = "up8" /\ ops[p].pc = "spice"
    /\ \E ok \in BOOLEAN :
         Goto(p, IF ok THEN [ops[p] EXCEPT !.pc = "returned"]
                 ELSE [ops[p] EXCEPT !.pc = "raised", !.exc = "libvirtError"])
    /\ UNCHANGED <<world, opCount, guestEvents>>

InitSsh ==
    /\ domains = {}
    /\ uuidCtr = 0
    /\ imagesDir = FALSE
    /\ cache = [f \in ImageFiles |-> "absent"]
    /\ vmDirs = [n \in Names |-> NoDir]
    /\ leases = [u \in 1..MaxDefines |-> <<>>]
    /\ opCount = 0
    /\ guestEvents = 0
    /\ ops = [p \in {1} |-> IdleSsh]

NextSsh ==
    \/ \E p \in DOMAIN ops : SshNew(p)
    \/ \E p \in DOMAIN ops : \E op \in {"run", "download", "upload"} : SshUse(p, op)
    \/ \E p \in DOMAIN ops : SshConnect(p)
    \/ \E p \in DOMAIN ops : SshClose(p)
    \/ \E p \in DOMAIN ops : Up8New(p)
    \/ \E p \in DOMAIN ops : Up8Attempt(p)
    \/ \E p \in DOMAIN ops : Up8Timeout(p)
    \/ \E p \in DOMAIN ops : Up8Close(p)
    \/ \E p \in DOMAIN ops : Up8Return(p)

SpecSsh == InitSsh /\ [][NextSsh]_vars

-----------------------------------------------------------------------------
(* cmd_test after get_info has returned a descriptor: the scenario loop,    *)
(* statement by statement                                                   *)

\* most scenarios of a test manifest
MaxScenarios == 2

\* a scenario of the manifest: its name, whether it has a command, whether
\* it has expect_output, and whether it has a screenshot and a reference
Scenarios ==
    {s \in [name : {"a", "b"}, commands : 0..1, expect : BOOLEAN,
            screenshot : BOOLEAN, reference : BOOLEAN] :
       /\ (s.expect => s.commands = 1)
       /\ (s.reference => s.screenshot)}

IdleTest ==
    [kind |-> "none",
     pc |-> "idle",        \* "commands" | "screenshot" | "finally" | "after" | "done"
     scenario |-> <<>>,    \* manifest["scenario"]
     i |-> 0,              \* position of the loop in it
     seen |-> <<>>,        \* names of the scenarios the loop has entered
     failures |-> <<>>,    \* the list failures: the scenario name of each message
     client |-> "none",    \* "none" | "created" | "closed"
     exc |-> "none",       \* the exception that left the loop
     exit |-> "none"]      \* "return" | "exit1" | "raise"

\* for scenario in manifest["scenario"]: the loop goes to the next scenario,
\* or leaves when there is none
NextScenario(o) ==
    IF o.i < Len(o.scenario)
    THEN [o EXCEPT !.i = @ + 1, !.pc = "commands",
                   !.seen = Append(@, o.scenario[o.i + 1].name)]
    ELSE [o EXCEPT !.pc = "finally"]

\* failures.append(msg)
Fail(o) == [o EXCEPT !.failures = Append(@, o.scenario[o.i].name)]

\* an exception leaves the try block
Abort(o, e) == [o EXCEPT !.pc = "finally", !.exc = e]

\* client = SSHClient(...); failures = []; the loop begins
TestCall(p) ==
    /\ ops[p].pc = "idle"
    /\ \E n \in 0..MaxScenarios : \E m \in [1..n -> Scenarios] :
         Goto(p, NextScenario([IdleTest EXCEPT !.kind = "test", !.scenario = m,
                                               !.client = "created"]))
    /\ UNCHANGED <<world, opCount, guestEvents>>

\* for cmd in scenario.get("commands", []): result = client.run(cmd); the
\* expect_output check appends a failure and the loop goes on
TestCommands(p) ==
    /\ ops[p].kind = "test" /\ ops[p].pc = "commands"
    /\ LET o == ops[p]
           s == o.scenario[o.i]
       IN IF s.commands = 0 THEN Goto(p, [o EXCEPT !.pc = "screenshot"])
          ELSE \E r \in {"found", "notfound", "raise"} :
                 Goto(p, IF r = "raise" THEN Abort(o, "SSHException")
                         ELSE IF s.expect /\ r = "notfound"
                         THEN [Fail(o) EXCEPT !.pc = "screenshot"]
                         ELSE [o EXCEPT !.pc = "screenshot"])
    /\ UNCHANGED <<world, opCount, guestEvents>>

\* mutant of TestScreenshot: a missing reference image ends the loop
TestScreenshot_Break(p) ==
    /\ ops[p].kind = "test" /\ ops[p].pc = "screenshot"
    /\ LET o == ops[p]
           s == o.scenario[o.i]
       IN IF ~s.screenshot THEN Goto(p, NextScenario(o))
          ELSE \E dl \in {"ok", "raise"}, ref \in BOOLEAN,
                  cmp \in {"passed", "below", "raise"}, diff \in {"ok", "raise"} :
                 Goto(p, CASE dl = "raise" -> Abort(o, "OSError")
                           [] dl = "ok" /\ ~s.reference -> NextScenario(o)
                           [] dl = "ok" /\ s.reference /\ ~ref ->
                                [Fail(o) EXCEPT !.pc = "finally"]
                           [] dl = "ok" /\ s.reference /\ ref /\ cmp = "raise" ->
                                Abort(o, "ValueError")
                           [] dl = "ok" /\ s.reference /\ ref /\ cmp = "passed" ->
                                NextScenario(o)
                           [] OTHER ->
                                IF diff = "raise" THEN Abort(o, "ValueError")
                                ELSE NextScenario(Fail(o)))
    /\ UNCHANGED <<world, opCount, guestEvents>>

\* the screenshot of the scenario: client.download; a reference that does
\* not exist appends a failure and continues; compare_screenshots below the
\* threshold writes the diff image and appends a failure
TestScreenshot(p) ==
    /\ ops[p].kind = "test" /\ ops[p].pc = "screenshot"
    /\ LET o == ops[p]
           s == o.scenario[o.i]
       IN IF ~s.screenshot THEN Goto(p, NextScenario(o))
          ELSE \E dl \in {"ok", "raise"}, ref \in BOOLEAN,
                  cmp \in {"passed", "below", "raise"}, diff \in {"ok", "raise"} :
                 Goto(p, CASE dl = "raise" -> Abort(o, "OSError")
                           [] dl = "ok" /\ ~s.reference -> NextScenario(o)
                           [] dl = "ok" /\ s.reference /\ ~ref ->
                                NextScenario(Fail(o))
                           [] dl = "ok" /\ s.reference /\ ref /\ cmp = "raise" ->
                                Abort(o, "ValueError")
                           [] dl = "ok" /\ s.reference /\ ref /\ cmp = "passed" ->
                                NextScenario(o)
                           [] OTHER ->
                                IF diff = "raise" THEN Abort(o, "ValueError")
                                ELSE NextScenario(Fail(o)))
    /\ UNCHANGED <<world, opCount, guestEvents>>

\* finally: client.close()
TestFinally(p) ==
    /\ ops[p].kind = "test" /\ ops[p].pc = "finally"
    /\ Goto(p, [ops[p] EXCEPT !.client = "closed", !.pc = "after"])
    /\ UNCHANGED <<world, opCount, guestEvents>>

\* the exception goes on; otherwise if failures: sys.exit(1), else the
\* handler returns
TestExit(p) ==
    /\ ops[p].kind = "test" /\ ops[p].pc = "after"
    /\ Goto(p, [ops[p] EXCEPT !.pc = "done",
                              !.exit = IF ops[p].exc # "none" THEN "raise"
                                       ELSE IF ops[p].failures # <<>> THEN "exit1"
                                       ELSE "return"])
    /\ UNCHANGED <<world, opCount, guestEvents>>

InitTest ==
    /\ domains = {}
    /\ uuidCtr = 0
    /\ imagesDir = FALSE
    /\ cache = [f \in ImageFiles |-> "absent"]
    /\ vmDirs = [n \in Names |-> NoDir]
    /\ leases = [u \in 1..MaxDefines |-> <<>>]
    /\ opCount = 0
    /\ guestEvents = 0
    /\ ops = [p \in {1} |-> IdleTest]

NextTest ==
    \/ \E p \in DOMAIN ops : TestCall(p)
    \/ \E p \in DOMAIN ops : TestCommands(p)
    \/ \E p \in DOMAIN ops : TestScreenshot(p)
    \/ \E p \in DOMAIN ops : TestFinally(p)
    \/ \E p \in DOMAIN ops : TestExit(p)

SpecTest == InitTest /\ [][NextTest]_vars

-----------------------------------------------------------------------------
(* provision.create_cloud_init_iso, statement by statement.  The temp       *)
(* directory is part of the handler's record: tmp is the set of files in it *)

\* most calls of create_cloud_init_iso in one run
MaxIsoCalls == 3

\* no NamedTemporaryFile: ud_file = None, md_file = None
NoFile == 0

IdleIso ==
    [kind |-> "none",
     pc |-> "idle",         \* "ud_create" | "ud_write" | "ud_close" | "md_create" |
                            \* "md_write" | "md_close" | "run" | "finally" |
                            \* "returned" | "raised"
     ud_file |-> NoFile,
     md_file |-> NoFile,
     tmp |-> {},            \* the files of the temp directory
     made |-> 0,            \* temp files created so far
     n |-> 0,               \* calls so far
     output |-> FALSE,      \* cloud-localds has written output_path
     exc |-> "none"]

\* a file of the temp directory
TempFile(id, suffix, content) == [id |-> id, suffix |-> suffix, content |-> content]

\* the statement after pc when it does not raise
IsoAfter(pc) ==
    CASE pc = "ud_create" -> "ud_write"
      [] pc = "ud_write" -> "ud_close"
      [] pc = "ud_close" -> "md_create"
      [] pc = "md_create" -> "md_write"
      [] pc = "md_write" -> "md_close"
      [] pc = "md_close" -> "run"
      [] OTHER -> "finally"

\* an exception leaves the try block for the finally
IsoRaise(o, e) == [o EXCEPT !.pc = "finally", !.exc = e]

\* a caller invokes create_cloud_init_iso: ud_file = None; md_file = None
IsoCall(p) ==
    /\ ops[p].pc \in {"idle", "returned", "raised"}
    /\ ops[p].n < MaxIsoCalls
    /\ Goto(p, [IdleIso EXCEPT !.kind = "iso", !.pc = "ud_create",
                               !.tmp = ops[p].tmp, !.made = ops[p].made,
                               !.n = ops[p].n + 1])
    /\ UNCHANGED <<world, opCount, guestEvents>>

\* tempfile.NamedTemporaryFile(mode="w", suffix=..., delete=False): a new
\* empty file with a fresh name, or OSError and no file
IsoCreate(p) ==
    /\ ops[p].kind = "iso" /\ ops[p].pc \in {"ud_create", "md_create"}
    /\ \E ok \in BOOLEAN :
         LET o == ops[p]
             id == o.made + 1
             sfx == IF o.pc = "ud_create" THEN "-user-data" ELSE "-meta-data"
             q == [o EXCEPT !.made = id, !.pc = IsoAfter(o.pc),
                            !.tmp = @ \cup {TempFile(id, sfx, "empty")}]
         IN Goto(p, IF ~ok THEN IsoRaise(o, "OSError")
                    ELSE IF o.pc = "ud_create" THEN [q EXCEPT !.ud_file = id]
                    ELSE [q EXCEPT !.md_file = id])
    /\ UNCHANGED <<world, opCount, guestEvents>>

\* f.write(data); f.close(): the data reaches the file at the latest when
\* it is closed; either statement can raise OSError
IsoWriteClose(p) ==
    /\ ops[p].kind = "iso"
    /\ ops[p].pc \in {"ud_write", "ud_close", "md_write", "md_close"}
    /\ \E ok \in BOOLEAN :
         LET o == ops[p]
             id == IF o.pc \in {"ud_write", "ud_close"} THEN o.ud_file ELSE o.md_file
             closing == o.pc \in {"ud_close", "md_close"}
             fill(c) == {IF f.id = id THEN [f EXCEPT !.content = c] ELSE f : f \in o.tmp}
         IN Goto(p, IF ~ok THEN IsoRaise(o, "OSError")
                    ELSE [o EXCEPT !.pc = IsoAfter(o.pc),
                                   !.tmp = IF closing THEN fill("written") ELSE @])
    /\ UNCHANGED <<world, opCount, guestEvents>>

\* subprocess.run(["cloud-localds", ...], check=True, capture_output=True)
IsoRun(p) ==
    /\ ops[p].kind = "iso" /\ ops[p].pc = "run"
    /\ \E out \in {"ok", "CalledProcessError", "FileNotFoundError"} :
         Goto(p, IF out = "ok" THEN [ops[p] EXCEPT !.output = TRUE, !.pc = "finally"]
                 ELSE IsoRaise(ops[p], out))
    /\ UNCHANGED <<world, opCount, guestEvents>>

\* mutant of IsoFinally: the temp files are removed only after a success
IsoFinally_OnSuccess(p) ==
    /\ ops[p].kind = "iso" /\ ops[p].pc = "finally"
    /\ LET o == ops[p]
           named == {o.ud_file, o.md_file} \ {NoFile}
       IN Goto(p, [o EXCEPT !.tmp = IF o.exc = "none"
                                    THEN {f \in @ : f.id \notin named} ELSE @,
                            !.pc = IF o.exc = "none" THEN "returned" ELSE "raised"])
    /\ UNCHANGED <<world, opCount, guestEvents>>

\* finally: for f in (ud_file, md_file): if f is not None:
\* Path(f.name).unlink(missing_ok=True); then the return or the exception
IsoFinally(p) ==
    /\ ops[p].kind = "iso" /\ ops[p].pc = "finally"
    /\ LET o == ops[p]
           named == {o.ud_file, o.md_file} \ {NoFile}
       IN Goto(p, [o EXCEPT !.tmp = {f \in @ : f.id \notin named},
                            !.pc = IF o.exc = "none" THEN "returned" ELSE "raised"])
    /\ UNCHANGED <<world, opCount, guestEvents>>

InitIso ==
    /\ domains = {}
    /\ uuidCtr = 0
    /\ imagesDir = FALSE
    /\ cache = [f \in ImageFiles |-> "absent"]
    /\ vmDirs = [n \in Names |-> NoDir]
    /\ leases = [u \in 1..MaxDefines |-> <<>>]
    /\ opCount = 0
    /\ guestEvents = 0
    /\ ops = [p \in {1} |-> IdleIso]

NextIso ==
    \/ \E p \in DOMAIN ops : IsoCall(p)
    \/ \E p \in DOMAIN ops : IsoCreate(p)
    \/ \E p \in DOMAIN ops : IsoWriteClose(p)
    \/ \E p \in DOMAIN ops : IsoRun(p)
    \/ \E p \in DOMAIN ops : IsoFinally(p)

SpecIso == InitIso /\ [][NextIso]_vars

-----------------------------------------------------------------------------
(* The guest and the operator, between two operations of the orchestrator *)

GuestTransition(d) ==
    CASE d.state = "running" -> {"paused", "shutoff"}
      [] d.state = "paused" -> {"running"}
      [] OTHER -> {}

GuestEvent ==
    /\ guestEvents < MaxGuestEvents
    /\ \A p \in DOMAIN ops : Finished(ops[p])
    /\ \E d \in domains : \E st \in GuestTransition(d) :
         domains' = (domains \ {d})
                    \cup (IF st = "shutoff" /\ ~d.persistent THEN {}
                          ELSE {[d EXCEPT !.state = st]})
    /\ guestEvents' = guestEvents + 1
    /\ ops' = [p \in DOMAIN ops |-> IdleOp]
    /\ UNCHANGED <<uuidCtr, imagesDir, cache, vmDirs, opCount>>
    /\ leases' = LiveLeases(leases, domains')

-----------------------------------------------------------------------------
(* Specification *)

Init ==
    /\ domains = {}
    /\ uuidCtr = 0
    /\ imagesDir = FALSE
    /\ cache = [f \in ImageFiles |-> "absent"]
    /\ vmDirs = [n \in Names |-> NoDir]
    /\ leases = [u \in 1..MaxDefines |-> <<>>]
    /\ opCount = 0
    /\ guestEvents = 0
    /\ ops = [p \in {1} |-> IdleOp]

Next ==
    \/ \E p \in DOMAIN ops : \E name \in Names : CallUp(p, name)
    \/ \E p \in DOMAIN ops : UpManifest(p)
    \/ \E p \in DOMAIN ops : UpImage(p)
    \/ \E p \in DOMAIN ops : UpOverlay(p)
    \/ \E p \in DOMAIN ops : UpSeed(p)
    \/ \E p \in DOMAIN ops : UpGrantImages(p)
    \/ \E p \in DOMAIN ops : UpGrantWorkdir(p)
    \/ \E p \in DOMAIN ops : CleanupLookup(p)
    \/ \E p \in DOMAIN ops : CleanupStop(p)
    \/ \E p \in DOMAIN ops : CleanupUndefine(p)
    \/ \E p \in DOMAIN ops : UpDefine(p)
    \/ \E p \in DOMAIN ops : UpCreate(p)
    \/ \E p \in DOMAIN ops : UpWaitIp(p)
    \/ \E p \in DOMAIN ops : UpWaitSsh(p)
    \/ \E p \in DOMAIN ops : UpReturn(p)
    \/ \E p \in DOMAIN ops : \E name \in Names : CallDestroy(p, name)
    \/ \E p \in DOMAIN ops : DestroyWorkdir(p)
    \/ GuestEvent

Spec == Init /\ [][Next]_vars

-----------------------------------------------------------------------------
(* Helpers for the properties *)

\* index of the first occurrence of call c in the log, 0 when it is absent
Pos(calls, c) ==
    IF \E i \in 1..Len(calls) : calls[i] = c
    THEN CHOOSE i \in 1..Len(calls) :
            calls[i] = c /\ \A j \in 1..(i - 1) : calls[j] # c
    ELSE 0

Called(o, c) == Pos(o.calls, c) > 0

Before(o, a, b) == Called(o, a) /\ Called(o, b) /\ Pos(o.calls, a) < Pos(o.calls, b)

\* the external calls of up in program order
UpOrder ==
    <<"find_manifest", "images_mkdir", "urlretrieve", "vm_dir", "create_overlay",
      "get_ssh_pubkey", "generate_user_data", "cloud_init_iso", "grant_images",
      "grant_workdir", "lookup", "state", "destroy", "undefine", "defineXML",
      "create", "wait_for_ip", "wait_until_ready", "ssh_close", "spice_port">>

\* calls that a run of up makes only under a condition
OptionalCalls == {"urlretrieve", "state", "destroy", "undefine"}

Rank(c) == CHOOSE i \in 1..Len(UpOrder) : UpOrder[i] = c

UpSteps ==
    <<"manifest", "image", "overlay", "seed", "grant_images", "grant_workdir",
      "cl_lookup", "cl_stop", "cl_undefine", "define", "create", "wait_ip",
      "wait_ssh", "spice", "returned">>

StepNo(pc) == CHOOSE i \in 1..Len(UpSteps) : UpSteps[i] = pc

\* the steps a run of up has completed when it is at pc, or raised at step at
Past(o, step) ==
    IF o.pc = "raised" THEN StepNo(o.at) > StepNo(step)
    ELSE StepNo(o.pc) > StepNo(step)

IsUp(o) == o.kind = "up" /\ o.pc # "idle"
IsDestroy(o) == o.kind = "destroy" /\ o.pc # "idle"

-----------------------------------------------------------------------------
(* C1 *)

\* an up that returned right after an up of the same name and manifest name
\* had returned
C1_SecondUp(o) ==
    /\ IsUp(o) /\ o.pc = "returned"
    /\ o.prev.up /\ o.prev.arg = o.arg /\ o.prev.vm.name = o.vm.name

\* C1: when up(name) returns right after an earlier up(name) had returned,
\* the second call found the domain the first one left, stopped it and
\* undefined it before it defined a new one, the old domain is gone, and
\* exactly one domain of that name exists: the new one, Running.
C1_Idempotence ==
    \A p \in DOMAIN ops :
      LET o == ops[p] IN
      C1_SecondUp(o) =>
        /\ o.found = o.prev.dom
        /\ Before(o, "destroy", "undefine")
        /\ Before(o, "undefine", "defineXML")
        /\ DomByUuid(domains, o.prev.dom) = {}
        /\ Cardinality(DomByName(domains, o.domain_name)) = 1
        /\ \A d \in DomByName(domains, o.domain_name) :
             d.uuid = o.dom /\ d.uuid # o.prev.dom /\ d.state = "running"

C1_Witness == \E p \in DOMAIN ops : C1_SecondUp(ops[p])

-----------------------------------------------------------------------------
(* C2 *)

\* C2: the domain that up looked up for clean-up and the domain that up
\* defined are both named "vmt-" followed by the manifest name.
C2_DomainNamedForManifest ==
    \A p \in DOMAIN ops :
      LET o == ops[p] IN
      (IsUp(o) /\ ~Finished(o)) =>
        /\ \A d \in DomByUuid(domains, o.found) : d.name = DomainName(o.vm.name)
        /\ \A d \in DomByUuid(domains, o.dom) : d.name = DomainName(o.vm.name)

-----------------------------------------------------------------------------
(* C3 *)

\* C3 as stated: whenever up is about to invoke define, no domain of that
\* name exists.
C3_DefineNeverCollides ==
    \A p \in DOMAIN ops :
      (IsUp(ops[p]) /\ ops[p].pc = "define") =>
        DomByName(domains, ops[p].domain_name) = {}

\* C3, amended: whenever up is about to invoke define, the clean-up of this
\* call has run: the lookup and, when it found a domain, the state query,
\* the stop if the domain was seen Running, and the undefine attempt, in this
\* order.  When none of these calls failed and the domain found was seen
\* Running or shut off, no domain of that name exists at that moment; and
\* once define has succeeded, the domain the clean-up found does not exist.
C3_CleanupBeforeDefine ==
    \A p \in DOMAIN ops :
      LET o == ops[p] IN
      /\ (IsUp(o) /\ o.pc = "define") =>
           /\ Called(o, "lookup")
           /\ o.found # NoDom =>
                /\ Before(o, "lookup", "state")
                /\ Before(o, "state", "undefine")
                /\ o.seen = "running" =>
                     Before(o, "state", "destroy") /\ Before(o, "destroy", "undefine")
           /\ (~o.hvErr /\ o.seen \in {"none", "running", "shutoff"}) =>
                DomByName(domains, o.domain_name) = {}
      /\ (IsUp(o) /\ o.found # NoDom /\ Past(o, "define")) =>
           DomByUuid(domains, o.found) = {}

C3_Witness ==
    \E p \in DOMAIN ops :
      /\ IsUp(ops[p]) /\ ops[p].pc = "define"
      /\ ops[p].found # NoDom /\ ops[p].seen = "running" /\ ~ops[p].hvErr

-----------------------------------------------------------------------------
(* C4 *)

\* C4: the external calls of a run of up are made in the program order
\* manifest, image, overlay, seed volume, grants on the image cache and on
\* the workspace, clean-up, define, start, address wait, shell wait; none
\* that is unconditional is skipped; the shell wait starts only with an
\* address obtained, and up returns only after the shell wait succeeded and
\* the connection was closed.
C4_StepOrder ==
    \A p \in DOMAIN ops :
      LET o == ops[p]
          c == o.calls
      IN IsUp(o) =>
           /\ \A i \in 1..(Len(c) - 1) : Rank(c[i]) < Rank(c[i + 1])
           /\ \A i \in 1..Len(c) : \A r \in 1..(Rank(c[i]) - 1) :
                UpOrder[r] \notin OptionalCalls => Called(o, UpOrder[r])
           /\ Called(o, "wait_until_ready") => o.ip \in IpAddrs
           /\ o.pc = "returned" =>
                /\ Called(o, "ssh_close") /\ o.ssh = "closed"
                /\ Called(o, "spice_port")
                /\ o.ret.ip = o.ip

C4_Witness ==
    \E p \in DOMAIN ops : IsUp(ops[p]) /\ ops[p].pc = "returned"

-----------------------------------------------------------------------------
(* C5 *)

\* C5 as stated: once any step of up after the manifest has failed, up has
\* raised (and so runs no later step).
C5_AnyFailureAborts ==
    \A p \in DOMAIN ops :
      (IsUp(ops[p]) /\ ops[p].swallowed) => ops[p].pc = "raised"

\* the external calls a step makes last
LastCallOf(step) ==
    CASE step = "manifest" -> {"find_manifest"}
      [] step = "image" -> {"urlretrieve"}
      [] step = "overlay" -> {"create_overlay"}
      [] step = "seed" -> {"get_ssh_pubkey", "generate_user_data", "cloud_init_iso"}
      [] step = "grant_images" -> {"grant_images"}
      [] step = "grant_workdir" -> {"grant_workdir"}
      [] step = "define" -> {"defineXML"}
      [] step = "create" -> {"create"}
      [] step = "wait_ip" -> {"wait_for_ip"}
      [] step = "wait_ssh" -> {"wait_until_ready"}
      [] step = "spice" -> {"spice_port"}
      [] OTHER -> {}

\* C5, amended: when up has raised, the call that failed is the last call it
\* made, and what the earlier steps built is still there: the image cache
\* directory and the cached image, the workspace with its overlay and seed
\* volume, the domain as defined (shut off) when start failed and Running
\* when a wait or the display-port query failed.  A grant that setfacl
\* rejects and a failed lookup, state query, stop or undefine of the clean-up
\* do not make up raise.
C5_NoRollback ==
    \A p \in DOMAIN ops :
      LET o == ops[p]
          n == o.vm.name
      IN (IsUp(o) /\ o.pc = "raised") =>
           /\ o.calls[Len(o.calls)] \in LastCallOf(o.at)
           /\ o.at \in {"grant_images", "grant_workdir"} => o.exc = "OSError"
           /\ o.at \notin {"cl_lookup", "cl_stop", "cl_undefine"}
           /\ Past(o, "manifest") => imagesDir
           /\ Past(o, "image") =>
                base_image_exists(imagesDir, cache, ImageFilename(o.vm.image))
           /\ Past(o, "manifest") /\ o.at # "image" => vmDirs[n].exists
           /\ Past(o, "overlay") => vmDirs[n].disk = "ok"
           /\ Past(o, "seed") => vmDirs[n].seed
           /\ o.at = "create" =>
                \E d \in DomByUuid(domains, o.dom) : d.persistent /\ d.state = "shutoff"
           /\ Past(o, "create") =>
                \E d \in DomByUuid(domains, o.dom) : d.persistent /\ d.state = "running"

C5_Witness ==
    \E p \in DOMAIN ops :
      /\ IsUp(ops[p]) /\ ops[p].pc = "raised" /\ ops[p].at = "create"
      /\ ops[p].swallowed

-----------------------------------------------------------------------------
(* C6 *)

\* C6: when up has raised TimeoutError (address wait or shell wait), the
\* domain it defined is still defined and Running, and up made no stop and
\* no undefine call after the define.
C6_TimeoutLeavesRunning ==
    \A p \in DOMAIN ops :
      LET o == ops[p] IN
      (IsUp(o) /\ o.pc = "raised" /\ o.exc = "TimeoutError") =>
        /\ o.at \in {"wait_ip", "wait_ssh"}
        /\ \E d \in DomByUuid(domains, o.dom) :
             d.persistent /\ d.state = "running" /\ d.name = XmlText(o.domain_name)
        /\ \A i \in (Pos(o.calls, "defineXML") + 1)..Len(o.calls) :
             o.calls[i] \notin {"destroy", "undefine"}

C6_Witness ==
    \E p \in DOMAIN ops :
      /\ IsUp(ops[p]) /\ ops[p].pc = "raised"
      /\ ops[p].exc = "TimeoutError" /\ ops[p].at = "wait_ssh"

-----------------------------------------------------------------------------
(* C7 *)

\* C7: the step in which up finds no manifest, or finds one that lacks a
\* required section or field, changes nothing on the host or the
\* hypervisor, and the manifest lookup is the only call up has made.
C7_ManifestErrorNoSideEffect ==
    [][\A p \in DOMAIN ops :
         (IsUp(ops[p]) /\ ops[p].pc = "manifest" /\ ops'[p].pc = "raised") =>
           /\ world' = world
           /\ ops'[p].calls = <<"find_manifest">>
           /\ ops'[p].exc \in {"FileNotFoundError", "ValueError", "KeyError"}]_vars

C7_Witness ==
    \E p \in DOMAIN ops :
      /\ IsUp(ops[p]) /\ ops[p].pc = "raised" /\ ops[p].at = "manifest"
      /\ ops[p].exc = "ValueError"

-----------------------------------------------------------------------------
(* C8 *)

\* C8: a destroy(name) called when no domain and no workspace of name exist
\* never raises, makes no stop and no undefine call, and when it has
\* returned no workspace directory and no domain of name exist.
C8_DestroyUnprovisioned ==
    \A p \in DOMAIN ops :
      LET o == ops[p] IN
      (IsDestroy(o) /\ o.fresh) =>
        /\ o.pc # "raised"
        /\ ~Called(o, "destroy") /\ ~Called(o, "undefine")
        /\ o.pc = "returned" =>
             /\ ~vmDirs[o.arg].exists
             /\ DomByName(domains, o.domain_name) = {}

C8_Witness ==
    \E p \in DOMAIN ops :
      IsDestroy(ops[p]) /\ ops[p].fresh /\ ops[p].pc = "returned"

-----------------------------------------------------------------------------
(* C9 *)

\* C9: destroy never raises; when its lookup found a domain, the undefine is
\* attempted whatever the state query and the stop did; and when destroy
\* has returned, whatever hypervisor call failed, the workspace is gone.
C9_DestroySwallows ==
    \A p \in DOMAIN ops :
      LET o == ops[p] IN
      IsDestroy(o) =>
        /\ o.pc # "raised"
        /\ (o.found # NoDom /\ o.pc \in {"workdir", "returned"}) =>
             Before(o, "state", "undefine")
        /\ o.pc = "returned" => Called(o, "rmtree") /\ ~vmDirs[o.arg].exists

C9_Witness ==
    \E p \in DOMAIN ops :
      /\ IsDestroy(ops[p]) /\ ops[p].pc = "returned"
      /\ ops[p].found # NoDom /\ ops[p].seen = "error" /\ ops[p].hvErr

-----------------------------------------------------------------------------
(* C10 *)

\* C10: up creates the workspace of the manifest name in step 3; and as
\* long as only up and destroy have acted on the hypervisor, a destroy(name)
\* that has returned with none of its hypervisor calls failed leaves no
\* domain named for name and no workspace directory of name.
C10_UpThenDestroyClean ==
    \A p \in DOMAIN ops :
      LET o == ops[p] IN
      /\ (IsUp(o) /\ Past(o, "overlay")) => vmDirs[o.vm.name].exists
      /\ (IsDestroy(o) /\ o.pc = "returned" /\ ~o.hvErr /\ guestEvents = 0) =>
           /\ DomByName(domains, o.domain_name) = {}
           /\ ~vmDirs[o.arg].exists

C10_Witness ==
    \E p \in DOMAIN ops :
      /\ IsDestroy(ops[p]) /\ ops[p].pc = "returned" /\ ~ops[p].hvErr
      /\ guestEvents = 0 /\ ops[p].seen = "running" /\ ~ops[p].fresh

-----------------------------------------------------------------------------
(* C11 *)

IsInfo(o) == o.kind = "get_info" /\ o.pc # "idle"

\* C11: get_info returns None when no domain of the name exists (the lookup
\* is its only call) and when the state it read is not Running; for a domain
\* that is not Running it never returns a descriptor; and it returns None
\* only when the lookup found nothing or the state read was not Running,
\* never after it has read the state Running.
C11_NoneUnlessRunning ==
    \A p \in DOMAIN ops :
      LET o == ops[p] IN
      IsInfo(o) =>
        /\ (Finished(o) /\ DomByName(domains, o.domain_name) = {}) =>
             o.pc = "returned" /\ o.result = "none" /\ o.calls = <<"lookup">>
        /\ o.seen \in {"paused", "shutoff"} =>
             o.pc = "returned" /\ o.result = "none"
        /\ (\A d \in DomByName(domains, o.domain_name) : d.state # "running") =>
             /\ o.result # "descriptor"
             /\ o.pc = "raised" => o.at = "gi_state"
        /\ o.result = "none" =>
             /\ o.pc = "returned"
             /\ o.found = NoDom \/ o.seen \in {"paused", "shutoff"}
        /\ o.seen = "running" => o.result # "none"

C11_Witness ==
    \E p \in DOMAIN ops :
      /\ IsInfo(ops[p]) /\ ops[p].pc = "returned" /\ ops[p].result = "none"
      /\ ops[p].seen = "paused"

-----------------------------------------------------------------------------
(* C12 *)

\* C12: when get_info returns a descriptor and its lease query reported at
\* least one IPv4 address, the address of the descriptor is not empty and is
\* one of those IPv4 addresses (the first); and every call reads the leases
\* the hypervisor holds at that moment, so a call made after a lease change
\* returns the address current at that call.
C12_AddressFromLiveLeases ==
    /\ [](\A p \in DOMAIN ops :
            LET o == ops[p] IN
            (IsInfo(o) /\ o.result = "descriptor" /\ ~o.leaseErr
               /\ Ipv4Of(o.leased) # {}) =>
              /\ o.seen = "running"
              /\ o.ret.ip # "none"
              /\ o.ret.ip \in Ipv4Of(o.leased)
              /\ o.ret.ip = FirstIpv4(o.leased))
    /\ [][\A p \in DOMAIN ops :
            (IsInfo(ops[p]) /\ ops[p].pc = "gi_ip" /\ ops'[p].pc = "gi_spice"
               /\ ~ops'[p].leaseErr) =>
              /\ ops'[p].leased = leases[ops[p].dom]
              /\ ops'[p].ip = FirstIpv4(leases[ops[p].dom])]_vars

C12_Witness ==
    \E p \in DOMAIN ops :
      /\ IsInfo(ops[p]) /\ ops[p].result = "descriptor"
      /\ ops[p].before # "none" /\ ops[p].ret.ip # "none"
      /\ ops[p].ret.ip # ops[p].before
      /\ Len(ops[p].leased) = 2

-----------------------------------------------------------------------------
(* C13 *)

\* C13: when get_info returns a descriptor, its ssh user and port are those
\* of the manifest if one was loaded (port 22 if the manifest gives none)
\* and "root" and 22 if no manifest was found; a manifest that is not found
\* never makes get_info raise.
C13_SshFromManifestOrFallback ==
    \A p \in DOMAIN ops :
      LET o == ops[p] IN
      IsInfo(o) =>
        /\ (o.result = "descriptor" /\ o.vm.status = "ok") =>
             /\ o.ret.ssh_user = o.vm.user
             /\ o.ret.ssh_port = IF o.vm.port = NoPort THEN 22 ELSE o.vm.port
        /\ o.vm.status = "notfound" =>
             /\ o.pc = "returned" /\ o.result = "descriptor"
             /\ o.ret.ssh_user = "root" /\ o.ret.ssh_port = 22
        /\ o.pc = "raised" => o.exc # "FileNotFoundError"

C13_Witness ==
    \E p \in DOMAIN ops :
      /\ IsInfo(ops[p]) /\ ops[p].result = "descriptor"
      /\ ops[p].vm.status = "notfound" /\ ops[p].seen = "running"

-----------------------------------------------------------------------------
(* C14 *)

IsWaitIp(o) == o.kind = "wait_for_ip"
IsWaitSsh(o) == o.kind = "wait_until_ready"

\* C14 as stated: with a lease source that never reports an address the
\* address wait returns no address, and it raises TimeoutError, naming the
\* domain and the timeout, no earlier than timeout after it started and no
\* later than one polling interval after the timeout elapsed.
C14_TimeoutWithinOneInterval ==
    \A p \in DOMAIN ops :
      LET o == ops[p] IN
      (IsWaitIp(o) /\ o.source = NeverLeased) =>
        /\ o.pc # "returned" /\ o.ip = "none"
        /\ o.pc = "raised" =>
             /\ o.exc = "TimeoutError"
             /\ o.msg.subject = o.host /\ o.msg.timeout = o.timeout
             /\ o.now >= o.timeout
             /\ o.now <= o.timeout + o.interval

\* C14, amended: with a lease source that never reports an address the
\* address wait returns no address, and it raises TimeoutError, naming the
\* domain and the timeout, no earlier than timeout after it started and
\* less than one polling interval plus the duration of its last lease query
\* after the timeout elapsed; every query was followed by one sleep.
C14_TimeoutAfterLastQuery ==
    \A p \in DOMAIN ops :
      LET o == ops[p] IN
      (IsWaitIp(o) /\ o.source = NeverLeased) =>
        /\ o.pc # "returned" /\ o.ip = "none"
        /\ o.pc = "raised" =>
             /\ o.exc = "TimeoutError"
             /\ o.msg.subject = o.host /\ o.msg.timeout = o.timeout
             /\ o.now >= o.timeout
             /\ o.now < o.timeout + o.interval + o.latency
             /\ o.attempts >= 1 /\ o.sleeps = o.attempts

C14_Witness ==
    \E p \in DOMAIN ops :
      /\ IsWaitIp(ops[p]) /\ ops[p].source = NeverLeased /\ ops[p].pc = "raised"
      /\ ops[p].now > ops[p].timeout + ops[p].interval

-----------------------------------------------------------------------------
(* C15 *)

\* C15: wait_until_ready raises nothing but TimeoutError; each handshake
\* that fails is followed by one sleep of interval seconds and then by the
\* next test of the deadline; TimeoutError is raised only once timeout has
\* elapsed, and it carries the host, the port and the exception of the last
\* failed handshake.
C15_AllFailuresSwallowed ==
    /\ [](\A p \in DOMAIN ops :
            LET o == ops[p] IN
            IsWaitSsh(o) =>
              /\ o.pc = "sleep" => o.sleeps = o.caught - 1 /\ o.attempts = o.caught
              /\ o.pc \in {"test", "attempt", "raised"} =>
                   o.sleeps = o.caught /\ o.attempts = o.caught
              /\ o.pc = "raised" =>
                   /\ o.exc = "TimeoutError"
                   /\ o.now >= o.timeout
                   /\ o.caught >= 1 /\ o.last_err \in ConnErrors
                   /\ o.msg.subject = o.host /\ o.msg.port = o.port
                   /\ o.msg.last_err = o.last_err)
    /\ [][\A p \in DOMAIN ops :
            (IsWaitSsh(ops[p]) /\ ops[p].pc = "sleep" /\ ops'[p] # ops[p]) =>
              /\ ops'[p].now = ops[p].now + ops[p].interval
              /\ ops'[p].pc = "test"]_vars

C15_Witness ==
    \E p \in DOMAIN ops :
      /\ IsWaitSsh(ops[p]) /\ ops[p].pc = "raised" /\ ops[p].caught > 1
      /\ ops[p].timeout = SshTimeout

-----------------------------------------------------------------------------
(* C16 *)

\* C16: when wait_until_ready has returned, the handshake that succeeded
\* was its last attempt and started before the deadline; with k attempts
\* made, k - 1 exceptions were caught and k - 1 sleeps were made, nothing
\* was raised and nothing of the caught exceptions is reported; and nothing
\* more happens after the return.
C16_ReturnsAtFirstSuccess ==
    /\ [](\A p \in DOMAIN ops :
            LET o == ops[p] IN
            (IsWaitSsh(o) /\ o.pc = "returned") =>
              /\ o.attempts = o.caught + 1
              /\ o.sleeps = o.caught
              /\ o.now - o.latency < o.deadline
              /\ o.exc = "none" /\ o.msg = NoMsg)
    /\ [][\A p \in DOMAIN ops :
            (IsWaitSsh(ops[p]) /\ ops[p].pc = "returned") => ops'[p] = ops[p]]_vars

C16_Witness ==
    \E p \in DOMAIN ops :
      /\ IsWaitSsh(ops[p]) /\ ops[p].pc = "returned" /\ ops[p].caught = 2

-----------------------------------------------------------------------------
(* C17 *)

\* C17: in step 2 of up, when a file named by the trailing segment of the
\* image reference exists in the cache directory, up makes no fetch and the
\* cache is unchanged; when none exists, up makes the fetch, and if the step
\* succeeds the file of exactly that name is there, complete, before the
\* overlay step starts.
C17_CacheKeyedByTrailingSegment ==
    [][\A p \in DOMAIN ops :
         (IsUp(ops[p]) /\ ops[p].pc = "image" /\ ops'[p].pc # "image") =>
           LET file == ImageFilename(ops[p].vm.image)
               had == file \in DOMAIN cache /\ cache[file] # "absent"
           IN /\ had => /\ cache' = cache
                        /\ ~Called(ops'[p], "urlretrieve")
                        /\ ops'[p].pc = "overlay"
              /\ ~had => /\ Called(ops'[p], "urlretrieve")
                         /\ ops'[p].pc = "overlay" =>
                              /\ file \in DOMAIN cache
                              /\ cache' = [cache EXCEPT ![file] = "complete"]]_vars

-----------------------------------------------------------------------------
(* C18 *)

\* C18: when up has raised in step 2 (the transfer failed or was
\* interrupted), no file exists under the final cache name; and an up that
\* took the cached file without a fetch took a complete file.
C18_NoPartialFileAfterFailedFetch ==
    \A p \in DOMAIN ops :
      LET o == ops[p]
          file == ImageFilename(o.vm.image)
      IN (IsUp(o) /\ file \in DOMAIN cache) =>
           /\ (o.pc = "raised" /\ o.at = "image") => cache[file] = "absent"
           /\ (Past(o, "image") /\ ~Called(o, "urlretrieve")) =>
                cache[file] = "complete"

-----------------------------------------------------------------------------
(* C19 *)

\* C19: when qemu-img fails in step 3, up raises there: the overlay
\* creation is the last call it made, so no key is read, no seed volume
\* built, no grant made, no domain looked up, defined or started by that
\* call; and whenever a call of up has invoked define, its overlay step had
\* succeeded and the overlay is not a partly written file.
C19_OverlayFailureAborts ==
    \A p \in DOMAIN ops :
      LET o == ops[p] IN
      IsUp(o) =>
        /\ (o.pc = "raised" /\ o.at = "overlay") =>
             /\ o.exc = "CalledProcessError"
             /\ o.calls[Len(o.calls)] = "create_overlay"
             /\ \A c \in {"get_ssh_pubkey", "generate_user_data", "cloud_init_iso",
                          "grant_images", "grant_workdir", "lookup", "state",
                          "destroy", "undefine", "defineXML", "create"} :
                  ~Called(o, c)
             /\ o.dom = NoDom /\ o.found = NoDom
        /\ Called(o, "create_overlay") /\ vmDirs[o.vm.name].disk # "ok" =>
             o.pc = "raised" /\ o.at = "overlay"
        /\ Called(o, "defineXML") => vmDirs[o.vm.name].disk = "ok"

C19_Witness ==
    \E p \in DOMAIN ops :
      /\ IsUp(ops[p]) /\ ops[p].pc = "raised" /\ ops[p].at = "overlay"
      /\ vmDirs[ops[p].vm.name].disk = "partial"

-----------------------------------------------------------------------------
(* C20 *)

IsGrant(o) == o.kind = "grant"

AllWorldExecutable(ps) == \A i \in 1..Len(ps) : ps[i].other_x

\* C20: for a path all of whose components, the root and the target
\* included, have the other-execute bit, _grant_qemu_access makes no setfacl
\* call at any point of its walk, raises nothing and returns.
C20_NoGrantWhenWorldExecutable ==
    \A p \in DOMAIN ops :
      LET o == ops[p] IN
      (IsGrant(o) /\ AllWorldExecutable(o.parts)) =>
        /\ o.calls = <<>>
        /\ o.pc # "raised"
        /\ o.i > Len(o.parts) => o.pc \in {"walk", "returned"}

C20_Witness ==
    \E p \in DOMAIN ops :
      /\ IsGrant(ops[p]) /\ ops[p].pc = "returned"
      /\ Len(ops[p].parts) = MaxDepth
      /\ AllWorldExecutable(ops[p].parts)
      /\ \A i \in 1..Len(ops[p].parts) : ops[p].parts[i].is_dir

-----------------------------------------------------------------------------
(* C21 *)

\* the components that need an entry: directories without other-execute
NeedGrant(ps) == {i \in 1..Len(ps) : ps[i].is_dir /\ ~ps[i].other_x}

\* C21: the setfacl calls of _grant_qemu_access are made in path order,
\* from the root down; at every point of the walk the components that got a
\* call are exactly the directories without other-execute passed so far,
\* each with one call; the entry is execute-only on an ancestor and
\* read+execute on the target, and on the target only.
C21_OneGrantPerComponent ==
    \A p \in DOMAIN ops :
      LET o == ops[p]
          c == o.calls
      IN (IsGrant(o) /\ o.pc # "raised") =>
           /\ \A k \in 1..(Len(c) - 1) : c[k].at < c[k + 1].at
           /\ {c[k].at : k \in 1..Len(c)} = {i \in NeedGrant(o.parts) : i < o.i}
           /\ \A k \in 1..Len(c) :
                c[k].perm = IF c[k].at = Len(o.parts) THEN "rx" ELSE "x"
           /\ o.pc = "returned" => o.i = Len(o.parts) + 1

C21_Witness ==
    \E p \in DOMAIN ops :
      /\ IsGrant(ops[p]) /\ ops[p].pc = "returned"
      /\ Len(ops[p].parts) = MaxDepth
      /\ Len(ops[p].calls) = 2
      /\ ops[p].calls[2].perm = "rx" /\ ops[p].calls[1].perm = "x"

-----------------------------------------------------------------------------
(* C22 *)

\* C22: _grant_qemu_access never raises, and when it is over every
\* directory without other-execute on the path has had its setfacl call,
\* whatever became of the calls before it.
C22_FailedGrantNeverRaised ==
    \A p \in DOMAIN ops :
      LET o == ops[p] IN
      IsGrant(o) =>
        /\ o.pc # "raised"
        /\ o.pc = "returned" =>
             {o.calls[k].at : k \in 1..Len(o.calls)} = NeedGrant(o.parts)

-----------------------------------------------------------------------------
(* C23 *)

IsSnapOp(o) == o.kind \in {"snapshot", "restore"}

\* the hypervisor calls of snapshot and of restore, in program order
HvCallsOf(kind) ==
    IF kind = "snapshot" THEN <<"lookupByName", "snapshotCreateXML">>
    ELSE <<"lookupByName", "snapshotLookupByName", "revertToSnapshot">>

\* C23: snapshot and restore make their hypervisor calls in program order;
\* the first call that fails ends the operation, which raises exactly the
\* error of that call, and no hypervisor call is made after it; the
\* operation returns only when every call succeeded; restore reverts only
\* to a snapshot its lookup found under the given name.
C23_ErrorsPassThrough ==
    \A p \in DOMAIN ops :
      LET o == ops[p]
          h == o.hv
      IN IsSnapOp(o) =>
           /\ Len(h) <= Len(HvCallsOf(o.kind))
           /\ \A k \in 1..Len(h) : h[k].call = HvCallsOf(o.kind)[k]
           /\ \A k \in 1..(Len(h) - 1) : h[k].err = "none"
           /\ (o.pc = "raised") <=> (Len(h) > 0 /\ h[Len(h)].err # "none")
           /\ o.pc = "raised" => o.exc = h[Len(h)].err
           /\ o.pc = "returned" => Len(h) = Len(HvCallsOf(o.kind))
           /\ (\E k \in 1..Len(h) : h[k].call = "revertToSnapshot") =>
                o.snap_name \in o.snaps

C23_Witness ==
    \E p \in DOMAIN ops :
      /\ ops[p].kind = "restore" /\ ops[p].pc = "raised"
      /\ ops[p].exc = "VIR_ERR_NO_DOMAIN_SNAPSHOT"
      /\ ops[p].snaps # {}
      /\ Len(ops[p].hv) = 2

-----------------------------------------------------------------------------
(* C24 *)

IsCli(o) == o.kind = "cli"

\* C24: when a command that opened a hypervisor connection is over (it
\* returned, raised, exited, or handed the process over), the connection
\* has been closed by mgr.close().
C24_ReleasedOnEveryExit ==
    \A p \in DOMAIN ops :
      LET o == ops[p] IN
      (IsCli(o) /\ o.pc \in {"done", "replaced"} /\ o.conn # "none") =>
        o.conn = "closed"

-----------------------------------------------------------------------------
(* C25 *)

IsFn(o, f) == o.kind = "fn" /\ o.fn = f

-----------------------------------------------------------------------------
(* C26 *)

\* up("x") found a manifest named x with image http://h/base.qcow2, ssh
\* user root and no ssh port
C26_Case(o) ==
    /\ IsUp(o) /\ o.arg = NameX
    /\ o.vm.name = NameX /\ o.vm.image = RefBase
    /\ o.vm.user = "root" /\ o.vm.port = NoPort

\* C26: when that up has returned, the cache holds a file base.qcow2, the
\* workspace of x exists and holds the overlay, the domain vmt-x is
\* Running, and the descriptor has ssh_user "root", ssh_port 22 and an
\* address.
C26_EndToEnd ==
    \A p \in DOMAIN ops :
      LET o == ops[p] IN
      (C26_Case(o) /\ o.pc = "returned") =>
        /\ cache["base.qcow2"] # "absent"
        /\ vmDirs[NameX].exists /\ vmDirs[NameX].disk = "ok"
        /\ \E d \in domains :
             /\ d.name = <<"v", "m", "t", "-", "x">>
             /\ d.uuid = o.dom
             /\ d.state = "running"
        /\ o.ret.ssh_user = "root"
        /\ o.ret.ssh_port = 22
        /\ o.ret.ip \in IpAddrs

C26_Witness ==
    \E p \in DOMAIN ops :
      /\ C26_Case(ops[p]) /\ ops[p].pc = "returned"
      /\ cache["base.qcow2"] = "complete"
      /\ ops[p].ret.spice_port \in SpicePorts

-----------------------------------------------------------------------------
(* C27 *)

IsUp2(o) == o.kind = "up2"

\* C27: of two up calls for different names running at the same time, no
\* two write the same cache file at once, none creates its overlay on a
\* base image that is only partly written, and two that returned have each
\* their own overlay and their own Running domain.
C27_ConcurrentUpsSafe ==
    \A p \in DOMAIN ops :
      LET o == ops[p] IN
      IsUp2(o) =>
        /\ ~(o.pc = "fetching" /\ WrittenByOther(p, o.file))
        /\ o.backing \in {"none", "complete"}
        /\ o.pc = "returned" =>
             /\ vmDirs[o.name].disk = "ok"
             /\ \E d \in domains :
                  d.uuid = o.dom /\ d.name = DomainName(o.name) /\ d.state = "running"
             /\ \A q \in DOMAIN ops \ {p} :
                  (IsUp2(ops[q]) /\ ops[q].pc = "returned") =>
                    ops[q].name # o.name /\ ops[q].dom # o.dom

-----------------------------------------------------------------------------
(* C28 *)

\* the position of a name in _KEY_NAMES
KeyRank(n) == CHOOSE i \in 1..Len(KEY_NAMES) : KEY_NAMES[i] = n

\* C28: get_ssh_key_path returns ~/.ssh/<n> for the first n of id_ed25519,
\* id_rsa, id_ecdsa that exists in ~/.ssh, whatever else the directory
\* holds, and raises FileNotFoundError exactly when none of the three
\* exists.
C28_FirstKeyInFixedOrder ==
    \A p \in DOMAIN ops :
      LET o == ops[p]
          dir == o.args.ssh_dir
          present == {n \in {"id_ed25519", "id_rsa", "id_ecdsa"} : Exists(dir[n])}
      IN IsFn(o, "get_ssh_key_path") =>
           /\ (o.out.status = "FileNotFoundError") <=> (present = {})
           /\ present # {} =>
                /\ o.out.status = "ok"
                /\ Len(o.out.path) = 3
                /\ o.out.path[3] \in present
                /\ \A n \in present : KeyRank(o.out.path[3]) <= KeyRank(n)
                /\ (Exists(dir["id_ed25519"]) => o.out.path[3] = "id_ed25519")
                /\ (~Exists(dir["id_ed25519"]) /\ Exists(dir["id_rsa"]))
                      => o.out.path[3] = "id_rsa"

C28_Witness ==
    \E p \in DOMAIN ops :
      /\ IsFn(ops[p], "get_ssh_key_path")
      /\ ops[p].args.ssh_dir["id_ed25519"] = "absent"
      /\ ops[p].args.ssh_dir["id_rsa"] = "file"
      /\ ops[p].args.ssh_dir["id_ecdsa"] = "file"
      /\ ops[p].args.ssh_dir["id_dsa"] = "file"
      /\ ops[p].out.path = <<"~", ".ssh", "id_rsa">>

-----------------------------------------------------------------------------
(* C29 *)

\* C29: find_manifest returns <d>/<name>.toml for the first d of the list
\* that holds a file <name>.toml, also when a later directory holds one
\* too, and raises FileNotFoundError exactly when no directory of the list
\* holds one, in particular when the list is empty.
C29_FirstDirectoryWins ==
    \A p \in DOMAIN ops :
      LET o == ops[p]
          a == o.args
          has(i) == IsFile(Entry(a.fs, a.search_dirs[i], TomlName(a.name)))
          hits == {i \in 1..Len(a.search_dirs) : has(i)}
      IN IsFn(o, "find_manifest") =>
           /\ (o.out.status = "FileNotFoundError") <=> (hits = {})
           /\ a.search_dirs = <<>> => o.out.status = "FileNotFoundError"
           /\ hits # {} =>
                /\ o.out.status = "ok"
                /\ \E i \in hits :
                     /\ o.out.path = <<a.search_dirs[i], TomlName(a.name)>>
                     /\ \A j \in 1..(i - 1) : ~has(j)

C29_Witness ==
    \E p \in DOMAIN ops :
      /\ IsFn(ops[p], "find_manifest")
      /\ ops[p].args.search_dirs = <<"d2", "d1">>
      /\ ops[p].args.fs["d1"][TomlName(NameX)] = "file"
      /\ ops[p].args.fs["d2"][TomlName(NameX)] = "file"
      /\ ops[p].args.name = NameX
      /\ ops[p].out.path = <<"d2", TomlName(NameX)>>

-----------------------------------------------------------------------------
(* C30 *)

\* a section of vm, provision, ssh or a field of name, image is absent
RequiredAbsent(data) ==
    \/ \E s \in {"vm", "provision", "ssh"} : s \notin DOMAIN data
    \/ /\ "vm" \in DOMAIN data
       /\ \E f \in {"name", "image"} : f \notin DOMAIN data["vm"]

\* C30: load_vm_manifest raises ValueError exactly when a required section
\* or a required vm field is absent; otherwise it returns the manifest
\* with vm.memory, vm.cpus and vm.disk present, each with the value of the
\* file when the file gives one and with 2048, 2 and 10 otherwise.
C30_ValidatesAndFillsDefaults ==
    \A p \in DOMAIN ops :
      LET o == ops[p]
          data == o.args.data
      IN IsFn(o, "load_vm_manifest") =>
           /\ o.out.status \in {"ValueError", "ok"}
           /\ (o.out.status = "ValueError") <=> RequiredAbsent(data)
           /\ o.out.status = "ok" =>
                LET vm == o.out.data["vm"]
                    given == data["vm"]
                IN /\ {"memory", "cpus", "disk"} \subseteq DOMAIN vm
                   /\ vm["memory"] = IF "memory" \in DOMAIN given
                                     THEN given["memory"] ELSE 2048
                   /\ vm["cpus"] = IF "cpus" \in DOMAIN given
                                   THEN given["cpus"] ELSE 2
                   /\ vm["disk"] = IF "disk" \in DOMAIN given
                                   THEN given["disk"] ELSE 10

C30_Witness ==
    \E p \in DOMAIN ops :
      /\ IsFn(ops[p], "load_vm_manifest")
      /\ ops[p].out.status = "ok"
      /\ DOMAIN ops[p].args.data["vm"] = {"name", "image", "memory"}
      /\ ops[p].args.data["vm"]["memory"] = 4096
      /\ ops[p].out.data["vm"]["memory"] = 4096
      /\ ops[p].out.data["vm"]["cpus"] = 2
      /\ ops[p].out.data["vm"]["disk"] = 10

-----------------------------------------------------------------------------
(* C31 *)

IsSsh(o) == o.kind = "ssh"

\* C31: run, download and upload call connect exactly when the client
\* holds no connection, and otherwise go on with the connection it holds;
\* the client holds a connection only if a connect succeeded, and that
\* connection is open; after close it holds none, and a close that found
\* none changes nothing.
C31_AutoConnect ==
    \A p \in DOMAIN ops :
      LET o == ops[p]
          l == o.last
      IN IsSsh(o) =>
           /\ o.client # NoConn => (o.client \in o.open /\ o.client <= o.made)
           /\ l.op \in {"run", "download", "upload"} =>
                /\ l.connects = IF l.was = NoConn THEN 1 ELSE 0
                /\ l.was # NoConn => (o.client = l.was /\ o.open = l.openBefore)
                /\ (l.was = NoConn /\ l.outcome = "connect raised") =>
                     (o.client = NoConn /\ o.open = l.openBefore)
                /\ (l.was = NoConn /\ l.outcome # "connect raised") =>
                     (o.client # NoConn /\ o.client \notin l.openBefore)
           /\ l.op = "close" =>
                /\ o.client = NoConn
                /\ o.open = l.openBefore \ {l.was}
                /\ l.was = NoConn => o.open = l.openBefore

C31_Witness ==
    \E p \in DOMAIN ops :
      /\ IsSsh(ops[p]) /\ ops[p].n = 3
      /\ ops[p].last.op = "run" /\ ops[p].last.was = NoConn
      /\ ops[p].last.connects = 1 /\ ops[p].made = 2
      /\ ops[p].client = 2 /\ ops[p].open = {2}

-----------------------------------------------------------------------------
(* C35 *)

IsUp8(o) == o.kind = "up8"

\* C35: from the moment step 8 of up is over (the descriptor is being
\* built, up has returned, or up has raised) no connection that up opened
\* is open and the client holds none.
C35_NoConnectionLeftOpen ==
    \A p \in DOMAIN ops :
      LET o == ops[p] IN
      (IsUp8(o) /\ o.pc \in {"spice", "returned", "raised"}) =>
        /\ o.open = {}
        /\ o.client = NoConn

C35_Witness ==
    \E p \in DOMAIN ops :
      /\ IsUp8(ops[p]) /\ ops[p].pc = "returned"
      /\ ops[p].made = 1 /\ ops[p].attempts = 1

-----------------------------------------------------------------------------
(* C32 *)

\* C32: no step of up creates the overlay disk.qcow2 of a VM name while a
\* domain of that name, whose disk that file is, is Running.
C32_NoOverlayWhileRunning ==
    [][\A p \in DOMAIN ops :
         (IsUp(ops[p]) /\ ops[p].pc = "overlay" /\ ops'[p].pc = "seed") =>
           ~\E d \in domains :
              d.name = DomainName(ops[p].vm.name) /\ d.state = "running"]_vars

-----------------------------------------------------------------------------
(* C33 *)

\* C33: when _cleanup_existing_domain has returned and none of its
\* hypervisor calls failed, no domain of the name it was given exists.
C33_CleanupRemovesDomain ==
    \A p \in DOMAIN ops :
      LET o == ops[p] IN
      ((IsUp(o) \/ IsDestroy(o)) /\ o.pc = AfterCleanup(o) /\ ~o.hvErr) =>
        DomByName(domains, o.domain_name) = {}

-----------------------------------------------------------------------------
(* C34 *)

\* C34: when up(name) has returned and the next call, destroy(name) with
\* the same name, has returned with no hypervisor call failed and no guest
\* transition in between, the domain and the workspace that this up created
\* are gone: both calls addressed the same domain and the same workspace.
C34_SameNameSameVm ==
    \A p \in DOMAIN ops :
      LET o == ops[p] IN
      (/\ IsDestroy(o) /\ o.pc = "returned" /\ ~o.hvErr
       /\ o.prev.up /\ o.prev.arg = o.arg
       /\ guestEvents = 0) =>
        /\ ~\E d \in domains : d.uuid = o.prev.dom
        /\ ~vmDirs[o.prev.vm.name].exists

-----------------------------------------------------------------------------
(* C36 *)

IsInfoWait(o) == o.kind = "_wait_for_ip"

\* C36: a hypervisor error of the lease query is never raised and counts as
\* "no address yet": _wait_for_ip ends only by returning an IPv4 address
\* that the leases held or by TimeoutError at the deadline, and a get_info
\* whose lease query failed on a Running domain does not raise at that
\* step and, when it returns, returns a descriptor with no address.
C36_LeaseErrorIsNoAddress ==
    \A p \in DOMAIN ops :
      LET o == ops[p] IN
      /\ (IsInfoWait(o) /\ o.pc = "raised") =>
           (o.exc = "TimeoutError" /\ o.t >= IpTimeout)
      /\ (IsInfoWait(o) /\ o.pc = "returned") =>
           (o.ip # "none" /\ o.ip \in Ipv4Of(o.leased))
      /\ (IsInfoWait(o) /\ o.pc = "poll" /\ o.leaseErr) => o.exc = "none"
      /\ (IsInfo(o) /\ o.leaseErr) =>
           /\ o.seen = "running"
           /\ o.ip = "none"
           /\ o.pc = "raised" => o.at # "gi_ip"
           /\ o.pc = "returned" => (o.result = "descriptor" /\ o.ret.ip = "none")

\* the address wait returned an address after a lease query had failed
C36_Witness ==
    \E p \in DOMAIN ops :
      /\ IsInfoWait(ops[p]) /\ ops[p].pc = "returned"
      /\ ops[p].leaseErr /\ ops[p].attempts >= 2
      /\ ops[p].ip \in Ipv4Of(ops[p].leased)

-----------------------------------------------------------------------------
(* C37 *)

\* C37: once get_info has reported that the VM is not running, the handler
\* of ssh, view, screenshot or test is on its way out with exit status 1,
\* has created no SSHClient, and never enters the rest of its try block
\* (the remote command, the viewer, the download, the scenarios).
C37_NotRunningExitsOne ==
    /\ [](\A p \in DOMAIN ops :
            LET o == ops[p] IN
            (IsCli(o) /\ o.info = "none") =>
              /\ o.cmd \in {"ssh", "view", "screenshot", "test"}
              /\ o.pc \in {"finally", "done"}
              /\ o.exit = "exit1"
              /\ o.client = "none")
    /\ [][\A p \in DOMAIN ops :
            (IsCli(ops[p]) /\ ops[p].pc = "info" /\ ops'[p].info = "none") =>
              (ops'[p].pc = "finally" /\ ops'[p].exit = "exit1")]_vars

\* the test handler has ended with status 1 because the VM was not running
C37_Witness ==
    \E p \in DOMAIN ops :
      /\ IsCli(ops[p]) /\ ops[p].cmd = "test" /\ ops[p].info = "none"
      /\ ops[p].pc = "done" /\ ops[p].exit = "exit1"
      /\ ops[p].conn = "closed" /\ ops[p].client = "none"

-----------------------------------------------------------------------------
(* C38 *)

IsTest(o) == o.kind = "test"

\* the names of the scenarios of a manifest, in manifest order
ScenarioNames(m) == [k \in 1..Len(m) |-> m[k].name]

\* C38: recording a failure never ends the scenario loop of the test
\* command: from a scenario that recorded a failure the loop goes to the
\* next scenario of the manifest, and a loop that no exception left has
\* entered every scenario, in manifest order.  The client is closed once
\* the loop is over, however it was left.  The handler exits with status 1
\* only when a failure was recorded, and, when no exception left the loop,
\* whenever one was recorded; without one it returns.
C38_AllScenariosThenStatus ==
    /\ [](\A p \in DOMAIN ops :
            LET o == ops[p] IN
            IsTest(o) =>
              /\ o.seen = SubSeq(ScenarioNames(o.scenario), 1, o.i)
              /\ (o.pc \in {"finally", "after", "done"} /\ o.exc = "none") =>
                   o.seen = ScenarioNames(o.scenario)
              /\ o.pc \in {"after", "done"} => o.client = "closed"
              /\ o.pc \in {"commands", "screenshot", "finally"} => o.client = "created"
              /\ (o.pc = "done" /\ o.exit = "exit1") =>
                   (o.failures # <<>> /\ o.seen = ScenarioNames(o.scenario))
              /\ (o.pc = "done" /\ o.exc = "none") =>
                   /\ o.exit \in {"exit1", "return"}
                   /\ o.exit = "exit1" <=> o.failures # <<>>)
    /\ [][\A p \in DOMAIN ops :
            (/\ IsTest(ops[p]) /\ ops[p].pc \in {"commands", "screenshot"}
             /\ Len(ops'[p].failures) > Len(ops[p].failures)) =>
              /\ ops'[p].exc = "none"
              /\ \/ ops'[p].i = ops[p].i /\ ops'[p].pc = "screenshot"
                 \/ /\ ops[p].i < Len(ops[p].scenario)
                    /\ ops'[p].i = ops[p].i + 1 /\ ops'[p].pc = "commands"
                 \/ /\ ops[p].i = Len(ops[p].scenario)
                    /\ ops'[p].pc = "finally"]_vars

\* the first of two scenarios recorded a failure, the second was run and
\* passed, and the handler exited with status 1 after closing the client
C38_Witness ==
    \E p \in DOMAIN ops :
      /\ IsTest(ops[p]) /\ ops[p].pc = "done" /\ ops[p].exit = "exit1"
      /\ Len(ops[p].scenario) = 2
      /\ ops[p].scenario[1].name = "b" /\ ops[p].scenario[2].name = "a"
      /\ ops[p].scenario[1].reference
      /\ ops[p].failures = <<"b">>
      /\ ops[p].seen = <<"b", "a">>
      /\ ops[p].client = "closed"

-----------------------------------------------------------------------------
(* C39 *)

IsIso(o) == o.kind = "iso"

\* C39: when create_cloud_init_iso has returned or raised, neither of the
\* temp files it created exists any more: the temp directory holds no file
\* of this or of an earlier call, whichever statement raised.
C39_TempFilesRemoved ==
    \A p \in DOMAIN ops :
      LET o == ops[p] IN
      (IsIso(o) /\ o.pc \in {"returned", "raised"}) =>
        /\ o.tmp = {}
        /\ o.pc = "raised" <=> o.exc # "none"
        /\ o.pc = "returned" => o.output

\* the packaging tool failed after both temp files had been written, and
\* the error was raised
C39_Witness ==
    \E p \in DOMAIN ops :
      /\ IsIso(ops[p]) /\ ops[p].pc = "raised"
      /\ ops[p].exc = "CalledProcessError"
      /\ ops[p].ud_file # NoFile /\ ops[p].md_file # NoFile
      /\ ops[p].ud_file # ops[p].md_file
      /\ ops[p].tmp = {}

====
